---- MODULE Spec2Model ----
(***************************************************************************)
(* The frontend TownController of the town and the two-player RPS game it  *)
(* carries: the RPS class (moves, readiness, winner), the controller's     *)
(* single game slot, its socket handlers and its outbound operations.      *)
(***************************************************************************)
EXTENDS Integers, Sequences, FiniteSets, TLC

\* ---------------------------------------------------------------- bounds
\* longest roster the model lets the town grow to
MaxRoster == 3
\* longest log of updateFrom calls kept for one RPS instance under test
MaxMoves == 3
\* highest score a player of a roster under leaderboard computation holds
MaxScore == 1
\* most listener calls an RPS instance with a status is followed for
MaxEmits == 3

\* ------------------------------------------------------------- constants
\* entries the leaderboard keeps: players.slice(0, 10)
LeaderboardSize == 10

\* ---------------------------------------------------------------- values
Undefined == "undefined"
JTrue == "true"
JFalse == "false"

\* player identities (opaque strings in the program)
Players == {"A", "B", "C"}

ROCK == "ROCK"
PAPER == "PAPER"
SCISSORS == "SCISSORS"
Answer == {ROCK, PAPER, SCISSORS}

\* RPSPlayerMove = { player, opponent, move }
RPSPlayerMoves == [player : Players, opponent : Players, move : Answer]

\* PlayerLocation, reduced to the position and the interactable the
\* townService assigns
Locations == [xy : {"spawn", "away"}, interactableID : {Undefined, "area"}]

\* where the townService places a player that enters the town
Spawn == [xy |-> "spawn", interactableID |-> Undefined]

\* the player models the townService sends when a player enters the town
PlayerModels == [id : Players, location : {Spawn}]

\* the player models its playerMoved messages carry
MovedPlayers == [id : Players, location : Locations]

\* the conversation area models the townService sends: ConversationArea =
\* { id, topic?, occupantsByID }
ConversationAreaModels ==
    [id : {"c1", "c2"}, topic : {Undefined, "chat"}, occupantsByID : SUBSET Players]

\* the viewing area models the townService sends: ViewingArea =
\* { id, video?, isPlaying, elapsedTimeSec }, the elapsed time left out
ViewingAreaModels ==
    [id : {"v1", "v2"}, video : {Undefined, "clip"}, isPlaying : {JTrue, JFalse}]

\* the interactables an initialize snapshot carries: none, the conversation
\* area c1, or c1 and the viewing area v1
InitialInteractables ==
    {<<>>}
    \cup {<<c>> : c \in {m \in ConversationAreaModels : m.id = "c1"}}
    \cup {<<c, v>> : c \in {m \in ConversationAreaModels : m.id = "c1"},
                     v \in {m \in ViewingAreaModels : m.id = "v1"}}

\* the identity the townService gives this controller's player
LocalUsers == {"A"}

\* RPSChallenge = { challenger, challengee, response? }; the challenges
\* other clients send come from challengePlayer, which sets response false
InboundChallenges == [challenger : Players, challengee : Players,
                      response : {JFalse}]

Range(s) == {s[i] : i \in DOMAIN s}

\* ------------------------------------------------------------- class RPS
\* new RPS(playerOne, playerTwo): both moves start undefined
NewRPS(playerOne, playerTwo) ==
    [playerOne |-> playerOne, playerTwo |-> playerTwo,
     playerOneMove |-> Undefined, playerTwoMove |-> Undefined]

\* readyToComplete with the conjunction slipped to a disjunction
readyToComplete_eitherMove(game) ==
    game.playerOneMove # Undefined \/ game.playerTwoMove # Undefined

\* RPS.readyToComplete
readyToComplete(game) ==
    game.playerOneMove # Undefined /\ game.playerTwoMove # Undefined

\* calculateWinnerFromMoves with the Paper branch inverted
calculateWinnerFromMoves_paperInverted(game) ==
    IF game.playerOneMove = game.playerTwoMove
    THEN [winner |-> game.playerOne, loser |-> game.playerTwo, draw |-> JTrue]
    ELSE LET playerWon ==
                 IF game.playerOneMove = ROCK
                 THEN (IF game.playerTwoMove = PAPER
                       THEN game.playerTwo ELSE game.playerOne)
                 ELSE IF game.playerOneMove = PAPER
                 THEN (IF game.playerTwoMove = ROCK
                       THEN game.playerTwo ELSE game.playerOne)
                 ELSE (IF game.playerTwoMove = ROCK
                       THEN game.playerTwo ELSE game.playerOne)
         IN [winner |-> playerWon,
             loser |-> IF game.playerOne = playerWon
                       THEN game.playerTwo ELSE game.playerOne,
             draw |-> Undefined]

\* calculateWinnerFromMoves whose draw test misses the Scissors pair
calculateWinnerFromMoves_scissorsFallThrough(game) ==
    IF game.playerOneMove = game.playerTwoMove /\ game.playerOneMove # SCISSORS
    THEN [winner |-> game.playerOne, loser |-> game.playerTwo, draw |-> JTrue]
    ELSE LET playerWon ==
                 IF game.playerOneMove = ROCK
                 THEN (IF game.playerTwoMove = PAPER
                       THEN game.playerTwo ELSE game.playerOne)
                 ELSE IF game.playerOneMove = PAPER
                 THEN (IF game.playerTwoMove = ROCK
                       THEN game.playerOne ELSE game.playerTwo)
                 ELSE (IF game.playerTwoMove = ROCK
                       THEN game.playerTwo ELSE game.playerOne)
         IN [winner |-> playerWon,
             loser |-> IF game.playerOne = playerWon
                       THEN game.playerTwo ELSE game.playerOne,
             draw |-> Undefined]

\* RPS.calculateWinnerFromMoves: the result object; draw is only set on a draw
calculateWinnerFromMoves(game) ==
    IF game.playerOneMove = game.playerTwoMove
    THEN [winner |-> game.playerOne, loser |-> game.playerTwo, draw |-> JTrue]
    ELSE LET playerWon ==
                 IF game.playerOneMove = ROCK
                 THEN (IF game.playerTwoMove = PAPER
                       THEN game.playerTwo ELSE game.playerOne)
                 ELSE IF game.playerOneMove = PAPER
                 THEN (IF game.playerTwoMove = ROCK
                       THEN game.playerOne ELSE game.playerTwo)
                 ELSE (IF game.playerTwoMove = ROCK
                       THEN game.playerTwo ELSE game.playerOne)
         IN [winner |-> playerWon,
             loser |-> IF game.playerOne = playerWon
                       THEN game.playerTwo ELSE game.playerOne,
             draw |-> Undefined]

\* Game.calculateWinner that misses Rock in the second hand against Scissors
calculateWinner_rockMissed(hand1, hand2) ==
    IF hand1.answer = ROCK
    THEN (IF hand2.answer = ROCK THEN Undefined
          ELSE IF hand2.answer = PAPER THEN hand2.player
          ELSE hand1.player)
    ELSE IF hand1.answer = PAPER
    THEN (IF hand2.answer = ROCK THEN hand1.player
          ELSE IF hand2.answer = PAPER THEN Undefined
          ELSE hand2.player)
    ELSE IF hand2.answer = PAPER THEN hand1.player
    ELSE Undefined

\* Game.calculateWinner of the townService, on two PlayerHands { player,
\* answer }: the player of the winning hand, or undefined for a draw
calculateWinner(hand1, hand2) ==
    IF hand1.answer = ROCK
    THEN (IF hand2.answer = ROCK THEN Undefined
          ELSE IF hand2.answer = PAPER THEN hand2.player
          ELSE hand1.player)
    ELSE IF hand1.answer = PAPER
    THEN (IF hand2.answer = ROCK THEN hand1.player
          ELSE IF hand2.answer = PAPER THEN Undefined
          ELSE hand2.player)
    ELSE IF hand2.answer = ROCK THEN hand2.player
    ELSE IF hand2.answer = PAPER THEN hand1.player
    ELSE Undefined

\* updateFrom that keeps a choice once it is recorded
updateFrom_firstChoiceKept(game, playerMove) ==
    IF playerMove.player = game.playerOne
    THEN (IF game.playerOneMove = Undefined
          THEN [game EXCEPT !.playerOneMove = playerMove.move] ELSE game)
    ELSE IF playerMove.player = game.playerTwo
    THEN (IF game.playerTwoMove = Undefined
          THEN [game EXCEPT !.playerTwoMove = playerMove.move] ELSE game)
    ELSE game

\* updateFrom that gives a player who is both participants the second slot
\* once the first is filled
updateFrom_bothSlotsOfOne(game, playerMove) ==
    IF playerMove.player = game.playerOne
       /\ ~(playerMove.player = game.playerTwo
            /\ game.playerOneMove # Undefined)
    THEN [game EXCEPT !.playerOneMove = playerMove.move]
    ELSE IF playerMove.player = game.playerTwo
    THEN [game EXCEPT !.playerTwoMove = playerMove.move]
    ELSE game

\* updateFrom that books a stranger's move in the second slot
updateFrom_strangerTakesSecondSlot(game, playerMove) ==
    IF playerMove.player = game.playerOne
    THEN [game EXCEPT !.playerOneMove = playerMove.move]
    ELSE [game EXCEPT !.playerTwoMove = playerMove.move]

\* RPS.updateFrom: the first matching participant's slot takes the move
updateFrom(game, playerMove) ==
    IF playerMove.player = game.playerOne
    THEN [game EXCEPT !.playerOneMove = playerMove.move]
    ELSE IF playerMove.player = game.playerTwo
    THEN [game EXCEPT !.playerTwoMove = playerMove.move]
    ELSE game

\* ------------------------------------------------------------------ state
VARIABLES
    userID,             \* TownController._userID
    ourPlayer,          \* id of TownController._ourPlayer
    players,            \* TownController._playersInternal, in array order
    rpsGame,            \* TownController._rpsGame: <<>> or <<the instance>>
    challengeReceived,  \* state of the useChallengeReceived hook
    resultsSent,        \* rpsGameEnded messages sent for the newest instance
    socketOut,          \* messages the last handler handed to the socket,
                        \* and its disconnect() call on it
    events,             \* events the last handler emitted to listeners, and
                        \* its setTownController call on the login controller
    lastCall,           \* last calculateWinnerFromMoves call: receiver, result
    fault,              \* the last handler threw
    handled,            \* name of the last handler or operation that ran
    moveLog,            \* the updateFrom calls made on an RPS under test
    joinRun,            \* the playerJoined deliveries for one identity that
                        \* the last handlers applied: the roster before them,
                        \* the identity, their number, and whether a
                        \* playerDisconnect for the identity followed
    conversationAreas,  \* TownController._conversationAreasInternal
    viewingAreas,       \* TownController._viewingAreas
    leaderboard,        \* state of the useLeaderboard hook: <<>> until the
                        \* hook is first called, then <<the list>>
    playersSeen         \* what the players accessor returned to the
                        \* playersChanged listeners the last handler called

vars == <<userID, ourPlayer, players, rpsGame, challengeReceived, resultsSent,
          socketOut, events, lastCall, fault, handled, moveLog, joinRun,
          conversationAreas, viewingAreas, leaderboard, playersSeen>>

\* field initialisers and constructor of TownController
Init ==
    /\ userID = Undefined
    /\ ourPlayer = Undefined
    /\ players = <<>>
    /\ rpsGame = <<>>
    /\ challengeReceived = Undefined
    /\ resultsSent = 0
    /\ socketOut = <<>>
    /\ events = <<>>
    /\ lastCall = <<>>
    /\ fault = FALSE
    /\ handled = Undefined
    /\ playersSeen = <<>>
    /\ moveLog = <<>>
    /\ joinRun = <<>>
    /\ conversationAreas = <<>>
    /\ viewingAreas = <<>>
    /\ leaderboard = <<>>

\* --------------------------------------------- the RPS class on its own
\* an RPS instance as RPS.test.ts builds it, before any move
RPSInit ==
    /\ \E playerOne \in Players, playerTwo \in Players :
           rpsGame = <<NewRPS(playerOne, playerTwo)>>
    /\ userID = Undefined
    /\ ourPlayer = Undefined
    /\ players = <<>>
    /\ challengeReceived = Undefined
    /\ resultsSent = 0
    /\ socketOut = <<>>
    /\ events = <<>>
    /\ lastCall = <<>>
    /\ fault = FALSE
    /\ handled = Undefined
    /\ playersSeen = <<>>
    /\ moveLog = <<>>
    /\ joinRun = <<>>
    /\ conversationAreas = <<>>
    /\ viewingAreas = <<>>
    /\ leaderboard = <<>>

\* rps.updateFrom(playerMove)
RPSUpdateFrom(playerMove) ==
    /\ Len(moveLog) < MaxMoves
    /\ rpsGame' = <<updateFrom(rpsGame[1], playerMove)>>
    /\ moveLog' = Append(moveLog, [player |-> playerMove.player,
                                   move |-> playerMove.move])
    /\ lastCall' = <<>>
    /\ handled' = "updateFrom"
    /\ playersSeen' = <<>>
    /\ UNCHANGED <<conversationAreas, viewingAreas, leaderboard>>
    /\ UNCHANGED <<userID, ourPlayer, players, challengeReceived, resultsSent,
                   socketOut, events, fault, joinRun>>

\* rps.calculateWinnerFromMoves(), callable in any state of the instance
RPSCalculateWinner ==
    /\ lastCall' = <<[game |-> rpsGame[1],
                      result |-> calculateWinnerFromMoves(rpsGame[1])]>>
    /\ handled' = "calculateWinnerFromMoves"
    /\ playersSeen' = <<>>
    /\ UNCHANGED <<conversationAreas, viewingAreas, leaderboard>>
    /\ UNCHANGED <<userID, ourPlayer, players, rpsGame, challengeReceived,
                   resultsSent, socketOut, events, fault, moveLog, joinRun>>

\* both resolvers on the two recorded choices: Game.calculateWinner on the
\* hands of the two players next to rps.calculateWinnerFromMoves(); a
\* PlayerHand always holds an answer
GameCalculateWinner ==
    /\ rpsGame[1].playerOneMove \in Answer
    /\ rpsGame[1].playerTwoMove \in Answer
    /\ lastCall' =
           <<[game |-> rpsGame[1],
              result |-> calculateWinnerFromMoves(rpsGame[1]),
              server |-> calculateWinner(
                             [player |-> rpsGame[1].playerOne,
                              answer |-> rpsGame[1].playerOneMove],
                             [player |-> rpsGame[1].playerTwo,
                              answer |-> rpsGame[1].playerTwoMove])]>>
    /\ handled' = "Game.calculateWinner"
    /\ playersSeen' = <<>>
    /\ UNCHANGED <<conversationAreas, viewingAreas, leaderboard>>
    /\ UNCHANGED <<userID, ourPlayer, players, rpsGame, challengeReceived,
                   resultsSent, socketOut, events, fault, moveLog, joinRun>>

RPSNext ==
    \/ \E playerMove \in RPSPlayerMoves : RPSUpdateFrom(playerMove)
    \/ RPSCalculateWinner
    \/ GameCalculateWinner

SpecRPS == RPSInit /\ [][RPSNext]_vars

\* the dominance relation of the game: Rock beats Scissors, Scissors beats
\* Paper, Paper beats Rock
Beats(a, b) ==
    <<a, b>> \in {<<ROCK, SCISSORS>>, <<SCISSORS, PAPER>>, <<PAPER, ROCK>>}

BothRecorded(game) ==
    game.playerOneMove \in Answer /\ game.playerTwoMove \in Answer

\* C1: for each of the six pairs of different recorded choices,
\* calculateWinnerFromMoves names the owner of the dominant choice as winner
\* and the other participant as loser, be it the first or the second.
C1_DominantChoiceWins ==
    \A c \in Range(lastCall) :
        (BothRecorded(c.game) /\ c.game.playerOneMove # c.game.playerTwoMove) =>
            /\ Beats(c.game.playerOneMove, c.game.playerTwoMove) =>
                   (c.result.winner = c.game.playerOne
                    /\ c.result.loser = c.game.playerTwo)
            /\ Beats(c.game.playerTwoMove, c.game.playerOneMove) =>
                   (c.result.winner = c.game.playerTwo
                    /\ c.result.loser = c.game.playerOne)

\* the second participant wins with Rock over Scissors
C1_Witness ==
    \E c \in Range(lastCall) :
        /\ c.game.playerOneMove = SCISSORS /\ c.game.playerTwoMove = ROCK
        /\ c.game.playerOne # c.game.playerTwo
        /\ c.result.winner = c.game.playerTwo

\* C2: with both choices recorded the result is a draw exactly for the three
\* equal pairs, and a draw names the first participant as winner and the
\* second as loser.
C2_DrawExactlyOnEqualChoices ==
    \A c \in Range(lastCall) :
        BothRecorded(c.game) =>
            /\ (c.result.draw = JTrue) <=>
                   (c.game.playerOneMove = c.game.playerTwoMove)
            /\ c.result.draw = JTrue =>
                   (c.result.winner = c.game.playerOne
                    /\ c.result.loser = c.game.playerTwo)

C2_Witness ==
    \E c \in Range(lastCall) :
        /\ c.game.playerOneMove = SCISSORS /\ c.game.playerTwoMove = SCISSORS
        /\ c.game.playerOne # c.game.playerTwo
        /\ c.result.draw = JTrue

\* the players the logged updateFrom calls name
Movers == {moveLog[i].player : i \in DOMAIN moveLog}

\* C3: readyToComplete is false while a choice slot is empty and true once
\* both are filled, in whichever order updateFrom recorded the participants.
C3_ReadyIffBothSlotsFilled ==
    \A game \in Range(rpsGame) :
        /\ (game.playerOneMove = Undefined \/ game.playerTwoMove = Undefined)
               => ~readyToComplete(game)
        /\ BothRecorded(game) => readyToComplete(game)
        /\ game.playerOne # game.playerTwo =>
               (readyToComplete(game) <=>
                    {game.playerOne, game.playerTwo} \subseteq Movers)

\* ready after the second participant moved first
C3_Witness ==
    \E game \in Range(rpsGame) :
        /\ readyToComplete(game)
        /\ game.playerOne # game.playerTwo
        /\ Len(moveLog) = 2
        /\ moveLog[1].player = game.playerTwo
        /\ moveLog[2].player = game.playerOne

\* the choice of the latest logged updateFrom call that names a player
LastChoiceOf(player) ==
    IF player \in Movers
    THEN LET last == CHOOSE i \in DOMAIN moveLog :
                 /\ moveLog[i].player = player
                 /\ \A j \in DOMAIN moveLog : moveLog[j].player = player => j <= i
         IN moveLog[last].move
    ELSE Undefined

\* C10: a further move of a participant replaces that participant's earlier
\* choice and leaves the other slot as it was, so each slot holds the last
\* choice recorded for its participant and the result is computed from these.
C10_LastChoiceWins ==
    /\ \A game \in Range(rpsGame) :
           /\ game.playerOneMove = LastChoiceOf(game.playerOne)
           /\ game.playerOne # game.playerTwo =>
                  game.playerTwoMove = LastChoiceOf(game.playerTwo)
    /\ \A c \in Range(lastCall) :
           (c.game.playerOne # c.game.playerTwo /\ BothRecorded(c.game)) =>
               LET one == LastChoiceOf(c.game.playerOne)
                   two == LastChoiceOf(c.game.playerTwo)
               IN /\ Beats(one, two) => c.result.winner = c.game.playerOne
                  /\ Beats(two, one) => c.result.winner = c.game.playerTwo
                  /\ (one = two) <=> (c.result.draw = JTrue)

\* the first participant changed Rock to Paper before the second chose Rock
C10_Witness ==
    /\ Len(moveLog) = 3
    /\ \E c \in Range(lastCall) :
           /\ c.game.playerOne # c.game.playerTwo
           /\ moveLog[1] = [player |-> c.game.playerOne, move |-> ROCK]
           /\ moveLog[2] = [player |-> c.game.playerOne, move |-> PAPER]
           /\ moveLog[3] = [player |-> c.game.playerTwo, move |-> ROCK]
           /\ c.result.winner = c.game.playerOne

\* ------------------------------------------------------ the TownController
\* PlayerController.fromPlayerModel: the controller object of a player model;
\* isOurPlayer marks the one object TownController._ourPlayer refers to
fromPlayerModel(playerModel) ==
    [id |-> playerModel.id, score |-> 0, location |-> playerModel.location,
     isOurPlayer |-> FALSE]

PlayerIDs(playerList) == {playerList[i].id : i \in DOMAIN playerList}

\* this.players.find(p => p.id === id): the first match, or undefined
FindPlayer(playerList, id) ==
    IF \E i \in DOMAIN playerList : playerList[i].id = id
    THEN LET first == CHOOSE i \in DOMAIN playerList :
                 /\ playerList[i].id = id
                 /\ \A j \in DOMAIN playerList : playerList[j].id = id => i <= j
         IN <<playerList[first]>>
    ELSE <<>>

\* the messages and events of one handler run; a payload that is the
\* handler's own argument, passed on untouched, is logged as Argument
Argument == "argument"
SocketMsg(type, payload) == [type |-> type, payload |-> payload]
Event(type, payload) == [type |-> type, payload |-> payload]

\* _attemptToFinishGame that empties the slot without sending the result
attemptToFinishGame_resultNotSent(game) ==
    IF game # <<>> /\ readyToComplete(game[1])
    THEN [rpsGame |-> <<>>, socketOut |-> <<>>, lastCall |-> <<>>]
    ELSE [rpsGame |-> game, socketOut |-> <<>>, lastCall |-> <<>>]

\* _attemptToFinishGame that sends the result but keeps the game in the slot
attemptToFinishGame_slotKept(game) ==
    IF game # <<>> /\ readyToComplete(game[1])
    THEN LET newGameResult == calculateWinnerFromMoves(game[1])
         IN [rpsGame |-> game,
             socketOut |-> <<SocketMsg("rpsGameEnded", newGameResult)>>,
             lastCall |-> <<[game |-> game[1], result |-> newGameResult]>>]
    ELSE [rpsGame |-> game, socketOut |-> <<>>, lastCall |-> <<>>]

\* TownController._attemptToFinishGame: the slot it leaves, what it sends
attemptToFinishGame(game) ==
    IF game # <<>> /\ readyToComplete(game[1])
    THEN LET newGameResult == calculateWinnerFromMoves(game[1])
         IN [rpsGame |-> <<>>,
             socketOut |-> <<SocketMsg("rpsGameEnded", newGameResult)>>,
             lastCall |-> <<[game |-> game[1], result |-> newGameResult]>>]
    ELSE [rpsGame |-> game, socketOut |-> <<>>, lastCall |-> <<>>]

\* the rosters an initialize snapshot carries: distinct players, ours included
Snapshots(uid) ==
    {snapshot \in UNION {[1..n -> PlayerModels] : n \in 1..MaxRoster} :
        /\ \A i, j \in DOMAIN snapshot :
               snapshot[i].id = snapshot[j].id => i = j
        /\ \E i \in DOMAIN snapshot : snapshot[i].id = uid}

\* the index of the first roster entry with an identity, 0 when there is none
FindIndex(playerList, id) ==
    IF \E i \in DOMAIN playerList : playerList[i].id = id
    THEN CHOOSE i \in DOMAIN playerList :
             /\ playerList[i].id = id
             /\ \A j \in DOMAIN playerList : playerList[j].id = id => i <= j
    ELSE 0

\* isConversationArea / isViewingArea of TypeUtils: told by the fields
isConversationArea(interactable) == "occupantsByID" \in DOMAIN interactable
isViewingArea(interactable) == "isPlaying" \in DOMAIN interactable

\* TownController._playersByIDs: the roster entries with one of the
\* identities, in roster order, each referred to by its identity
playersByIDs(playerList, playerIDs) ==
    LET Included(eachPlayer) == eachPlayer.id \in playerIDs
        included == SelectSeq(playerList, Included)
    IN [i \in DOMAIN included |-> included[i].id]

\* ConversationAreaController.fromConversationAreaModel
fromConversationAreaModel(model, playerList) ==
    [id |-> model.id, topic |-> model.topic,
     occupants |-> playersByIDs(playerList, model.occupantsByID)]

\* ConversationAreaController.isEmpty: no occupant
isEmpty(area) == Len(area.occupants) = 0

\* ViewingAreaController.updateFrom: the playback fields of the model
viewingAreaUpdateFrom(area, model) ==
    [area EXCEPT !.video = model.video, !.isPlaying = model.isPlaying]

\* the interactables of a snapshot that satisfy a test, in snapshot order
Interactables(interactables, kind) ==
    LET OfKind(eachInteractable) ==
            IF kind = "conversation" THEN isConversationArea(eachInteractable)
            ELSE ~isConversationArea(eachInteractable)
                     /\ isViewingArea(eachInteractable)
    IN SelectSeq(interactables, OfKind)

\* the _players setter that assigns the field before it emits
setPlayers_assignedFirst(playersInternal, newPlayers) ==
    [players |-> newPlayers,
     emitted |-> <<Event("playersChanged", newPlayers)>>,
     seen |-> <<newPlayers>>]

\* the _players setter: playersChanged is emitted with the new list, and
\* only then is the field assigned, so a listener that reads the players
\* accessor during the dispatch gets the list before the change
setPlayers(playersInternal, newPlayers) ==
    [players |-> newPlayers,
     emitted |-> <<Event("playersChanged", newPlayers)>>,
     seen |-> <<playersInternal>>]

\* socket.on('initialize') registered by connect()
Initialize(uid, snapshot, interactables) ==
    /\ handled' = "initialize"
    /\ joinRun' = <<>>
    /\ userID = Undefined
    /\ LET first == FindIndex(snapshot, uid)
           newPlayers == [i \in DOMAIN snapshot |->
                              [fromPlayerModel(snapshot[i])
                                   EXCEPT !.isOurPlayer = (i = first)]]
           found == FindPlayer(newPlayers, uid)
           conversations == Interactables(interactables, "conversation")
           viewings == Interactables(interactables, "viewing")
           changed == setPlayers(players, newPlayers)
       IN /\ players' = changed.players
          /\ playersSeen' = changed.seen
          /\ conversationAreas' =
                 [i \in DOMAIN conversations |->
                      fromConversationAreaModel(conversations[i], newPlayers)]
          /\ viewingAreas' = viewings
          /\ userID' = uid
          /\ ourPlayer' = IF found = <<>> THEN Undefined ELSE found[1].id
          /\ events' = changed.emitted
                           \o <<Event("conversationAreasChanged", <<>>),
                                Event("connect", Undefined)>>
    /\ socketOut' = <<>>
    /\ lastCall' = <<>>
    /\ fault' = FALSE
    /\ UNCHANGED <<rpsGame, challengeReceived, resultsSent, moveLog,
                   leaderboard>>

\* the run of playerJoined deliveries after one more delivery for an identity
JoinRunAfterJoin(id) ==
    IF joinRun # <<>> /\ joinRun[1].id = id /\ ~joinRun[1].left
    THEN <<[joinRun[1] EXCEPT !.count = @ + 1]>>
    ELSE <<[roster |-> players, id |-> id, count |-> 1, left |-> FALSE]>>

\* the run once a playerDisconnect arrived: closed if it names the identity
JoinRunAfterDisconnect(id) ==
    IF joinRun # <<>> /\ joinRun[1].id = id /\ ~joinRun[1].left
    THEN <<[joinRun[1] EXCEPT !.left = TRUE]>>
    ELSE <<>>

\* playerJoined whose notification carries the roster before the join
PlayerJoined_priorRosterNotified(newPlayer) ==
    /\ handled' = "playerJoined"
    /\ UNCHANGED <<conversationAreas, viewingAreas, leaderboard>>
    /\ Len(players) < MaxRoster
    /\ joinRun' = JoinRunAfterJoin(newPlayer.id)
    /\ LET newPlayerObj == fromPlayerModel(newPlayer)
           newPlayers == players \o <<newPlayerObj>>
       IN /\ players' = newPlayers
          /\ playersSeen' = setPlayers(players, newPlayers).seen
          /\ events' = <<Event("playersChanged", players),
                         Event("playerMoved", newPlayerObj)>>
    /\ socketOut' = <<>>
    /\ lastCall' = <<>>
    /\ fault' = FALSE
    /\ UNCHANGED <<userID, ourPlayer, rpsGame, challengeReceived, resultsSent,
                   moveLog>>

\* socket.on('playerJoined')
PlayerJoined(newPlayer) ==
    /\ handled' = "playerJoined"
    /\ UNCHANGED <<conversationAreas, viewingAreas, leaderboard>>
    /\ Len(players) < MaxRoster
    /\ joinRun' = JoinRunAfterJoin(newPlayer.id)
    /\ LET newPlayerObj == fromPlayerModel(newPlayer)
           changed == setPlayers(players, players \o <<newPlayerObj>>)
       IN /\ players' = changed.players
          /\ playersSeen' = changed.seen
          /\ events' = changed.emitted
                           \o <<Event("playerMoved", newPlayerObj)>>
    /\ socketOut' = <<>>
    /\ lastCall' = <<>>
    /\ fault' = FALSE
    /\ UNCHANGED <<userID, ourPlayer, rpsGame, challengeReceived, resultsSent,
                   moveLog>>

\* playerDisconnect that removes the first entry of the identity only
PlayerDisconnect_firstMatchOnly(disconnectedPlayer) ==
    /\ handled' = "playerDisconnect"
    /\ UNCHANGED <<conversationAreas, viewingAreas, leaderboard>>
    /\ joinRun' = JoinRunAfterDisconnect(disconnectedPlayer)
    /\ LET first == FindIndex(players, disconnectedPlayer)
           newPlayers == IF first = 0 THEN players
                         ELSE SubSeq(players, 1, first - 1)
                                  \o SubSeq(players, first + 1, Len(players))
           changed == setPlayers(players, newPlayers)
       IN /\ players' = changed.players
          /\ playersSeen' = changed.seen
          /\ events' = changed.emitted
    /\ socketOut' = <<>>
    /\ lastCall' = <<>>
    /\ fault' = FALSE
    /\ UNCHANGED <<userID, ourPlayer, rpsGame, challengeReceived, resultsSent,
                   moveLog>>

\* socket.on('playerDisconnect')
PlayerDisconnect(disconnectedPlayer) ==
    /\ handled' = "playerDisconnect"
    /\ UNCHANGED <<conversationAreas, viewingAreas, leaderboard>>
    /\ joinRun' = JoinRunAfterDisconnect(disconnectedPlayer)
    /\ LET Stays(eachPlayer) == eachPlayer.id # disconnectedPlayer
           changed == setPlayers(players, SelectSeq(players, Stays))
       IN /\ players' = changed.players
          /\ playersSeen' = changed.seen
          /\ events' = changed.emitted
    /\ socketOut' = <<>>
    /\ lastCall' = <<>>
    /\ fault' = FALSE
    /\ UNCHANGED <<userID, ourPlayer, rpsGame, challengeReceived, resultsSent,
                   moveLog>>

\* playerMoved that drops the update of an identity it does not know
PlayerMoved_unknownDropped(movedPlayer) ==
    /\ handled' = "playerMoved"
    /\ playersSeen' = <<>>
    /\ UNCHANGED <<conversationAreas, viewingAreas, leaderboard>>
    /\ joinRun' = <<>>
    /\ LET first == FindIndex(players, movedPlayer.id)
       IN IF first # 0
          THEN LET newLocation ==
                       IF players[first].isOurPlayer
                       THEN [players[first].location EXCEPT !.interactableID =
                                 movedPlayer.location.interactableID]
                       ELSE movedPlayer.location
                   playerToUpdate ==
                       [players[first] EXCEPT !.location = newLocation]
               IN /\ players' = [players EXCEPT ![first] = playerToUpdate]
                  /\ events' = <<Event("playerMoved", playerToUpdate)>>
          ELSE /\ players' = players
               /\ events' = <<>>
    /\ socketOut' = <<>>
    /\ lastCall' = <<>>
    /\ fault' = FALSE
    /\ UNCHANGED <<userID, ourPlayer, rpsGame, challengeReceived, resultsSent,
                   moveLog>>

\* socket.on('playerMoved'): the first entry of the identity takes the
\* location, our own player only its interactableID; an unknown identity
\* enters the roster
PlayerMoved(movedPlayer) ==
    /\ handled' = "playerMoved"
    /\ UNCHANGED <<conversationAreas, viewingAreas, leaderboard>>
    /\ joinRun' = <<>>
    /\ LET first == FindIndex(players, movedPlayer.id)
       IN IF first # 0
          THEN LET newLocation ==
                       IF players[first].isOurPlayer
                       THEN [players[first].location EXCEPT !.interactableID =
                                 movedPlayer.location.interactableID]
                       ELSE movedPlayer.location
                   playerToUpdate ==
                       [players[first] EXCEPT !.location = newLocation]
               IN /\ players' = [players EXCEPT ![first] = playerToUpdate]
                  /\ playersSeen' = <<>>
                  /\ events' = <<Event("playerMoved", playerToUpdate)>>
          ELSE LET newPlayer == fromPlayerModel(movedPlayer)
                   changed == setPlayers(players, players \o <<newPlayer>>)
               IN /\ Len(players) < MaxRoster
                  /\ players' = changed.players
                  /\ playersSeen' = changed.seen
                  /\ events' = changed.emitted
                                   \o <<Event("playerMoved", newPlayer)>>
    /\ socketOut' = <<>>
    /\ lastCall' = <<>>
    /\ fault' = FALSE
    /\ UNCHANGED <<userID, ourPlayer, rpsGame, challengeReceived, resultsSent,
                   moveLog>>

\* interactableUpdate that reads the emptiness before the change only after
\* the occupants were overwritten
InteractableUpdate_emptinessReadAfter(interactable) ==
    /\ handled' = "interactableUpdate"
    /\ playersSeen' = <<>>
    /\ joinRun' = <<>>
    /\ IF isConversationArea(interactable)
       THEN /\ UNCHANGED viewingAreas
            /\ LET found == {i \in DOMAIN conversationAreas :
                                 conversationAreas[i].id = interactable.id}
               IN IF found # {}
                  THEN LET first == CHOOSE i \in found : \A j \in found : i <= j
                           emptyNow == isEmpty(conversationAreas[first])
                           updatedConversationArea ==
                               [conversationAreas[first] EXCEPT
                                    !.topic = interactable.topic,
                                    !.occupants = playersByIDs(players,
                                                      interactable.occupantsByID)]
                           emptyAfterChange == isEmpty(updatedConversationArea)
                           newAreas == [conversationAreas EXCEPT
                                            ![first] = updatedConversationArea]
                       IN /\ conversationAreas' = newAreas
                          /\ events' = IF isEmpty(updatedConversationArea) # emptyAfterChange
                                       THEN <<Event("conversationAreasChanged",
                                                    newAreas)>>
                                       ELSE <<>>
                  ELSE /\ events' = <<>>
                       /\ UNCHANGED conversationAreas
       ELSE IF isViewingArea(interactable)
       THEN LET found == {i \in DOMAIN viewingAreas :
                              viewingAreas[i].id = interactable.id}
            IN /\ viewingAreas' =
                      IF found # {}
                      THEN LET first == CHOOSE i \in found :
                                            \A j \in found : i <= j
                           IN [viewingAreas EXCEPT ![first] =
                                   viewingAreaUpdateFrom(viewingAreas[first],
                                                         interactable)]
                      ELSE viewingAreas
               /\ events' = <<>>
               /\ UNCHANGED conversationAreas
       ELSE /\ events' = <<>>
            /\ UNCHANGED <<conversationAreas, viewingAreas>>
    /\ socketOut' = <<>>
    /\ lastCall' = <<>>
    /\ fault' = FALSE
    /\ UNCHANGED <<userID, ourPlayer, players, rpsGame, challengeReceived,
                   resultsSent, moveLog, leaderboard>>

\* interactableUpdate that builds a controller for an area it does not know
InteractableUpdate_unknownAreaCreated(interactable) ==
    /\ handled' = "interactableUpdate"
    /\ playersSeen' = <<>>
    /\ joinRun' = <<>>
    /\ IF isConversationArea(interactable)
       THEN /\ UNCHANGED viewingAreas
            /\ LET found == {i \in DOMAIN conversationAreas :
                                 conversationAreas[i].id = interactable.id}
               IN IF found # {}
                  THEN LET first == CHOOSE i \in found : \A j \in found : i <= j
                           emptyNow == isEmpty(conversationAreas[first])
                           updatedConversationArea ==
                               [conversationAreas[first] EXCEPT
                                    !.topic = interactable.topic,
                                    !.occupants = playersByIDs(players,
                                                      interactable.occupantsByID)]
                           emptyAfterChange == isEmpty(updatedConversationArea)
                           newAreas == [conversationAreas EXCEPT
                                            ![first] = updatedConversationArea]
                       IN /\ conversationAreas' = newAreas
                          /\ events' = IF emptyNow # emptyAfterChange
                                       THEN <<Event("conversationAreasChanged",
                                                    newAreas)>>
                                       ELSE <<>>
                  ELSE /\ conversationAreas' =
                              Append(conversationAreas,
                                     fromConversationAreaModel(interactable, players))
                       /\ events' = <<>>
       ELSE IF isViewingArea(interactable)
       THEN LET found == {i \in DOMAIN viewingAreas :
                              viewingAreas[i].id = interactable.id}
            IN /\ viewingAreas' =
                      IF found # {}
                      THEN LET first == CHOOSE i \in found :
                                            \A j \in found : i <= j
                           IN [viewingAreas EXCEPT ![first] =
                                   viewingAreaUpdateFrom(viewingAreas[first],
                                                         interactable)]
                      ELSE viewingAreas
               /\ events' = <<>>
               /\ UNCHANGED conversationAreas
       ELSE /\ events' = <<>>
            /\ UNCHANGED <<conversationAreas, viewingAreas>>
    /\ socketOut' = <<>>
    /\ lastCall' = <<>>
    /\ fault' = FALSE
    /\ UNCHANGED <<userID, ourPlayer, players, rpsGame, challengeReceived,
                   resultsSent, moveLog, leaderboard>>

\* socket.on('interactableUpdate'); the area controllers' own topicChange and
\* occupantsChange events are not events of the TownController
InteractableUpdate(interactable) ==
    /\ handled' = "interactableUpdate"
    /\ playersSeen' = <<>>
    /\ joinRun' = <<>>
    /\ IF isConversationArea(interactable)
       THEN /\ UNCHANGED viewingAreas
            /\ LET found == {i \in DOMAIN conversationAreas :
                                 conversationAreas[i].id = interactable.id}
               IN IF found # {}
                  THEN LET first == CHOOSE i \in found : \A j \in found : i <= j
                           emptyNow == isEmpty(conversationAreas[first])
                           updatedConversationArea ==
                               [conversationAreas[first] EXCEPT
                                    !.topic = interactable.topic,
                                    !.occupants = playersByIDs(players,
                                                      interactable.occupantsByID)]
                           emptyAfterChange == isEmpty(updatedConversationArea)
                           newAreas == [conversationAreas EXCEPT
                                            ![first] = updatedConversationArea]
                       IN /\ conversationAreas' = newAreas
                          /\ events' = IF emptyNow # emptyAfterChange
                                       THEN <<Event("conversationAreasChanged",
                                                    newAreas)>>
                                       ELSE <<>>
                  ELSE /\ events' = <<>>
                       /\ UNCHANGED conversationAreas
       ELSE IF isViewingArea(interactable)
       THEN LET found == {i \in DOMAIN viewingAreas :
                              viewingAreas[i].id = interactable.id}
            IN /\ viewingAreas' =
                      IF found # {}
                      THEN LET first == CHOOSE i \in found :
                                            \A j \in found : i <= j
                           IN [viewingAreas EXCEPT ![first] =
                                   viewingAreaUpdateFrom(viewingAreas[first],
                                                         interactable)]
                      ELSE viewingAreas
               /\ events' = <<>>
               /\ UNCHANGED conversationAreas
       ELSE /\ events' = <<>>
            /\ UNCHANGED <<conversationAreas, viewingAreas>>
    /\ socketOut' = <<>>
    /\ lastCall' = <<>>
    /\ fault' = FALSE
    /\ UNCHANGED <<userID, ourPlayer, players, rpsGame, challengeReceived,
                   resultsSent, moveLog, leaderboard>>

\* socket.on('rpsChallengeSent'), with the challengeHandler listener of the
\* useChallengeReceived hook; the userID getter asserts the id is set
RecvChallengeSent(challenge) ==
    /\ handled' = "rpsChallengeSent"
    /\ playersSeen' = <<>>
    /\ UNCHANGED <<conversationAreas, viewingAreas, leaderboard>>
    /\ joinRun' = <<>>
    /\ socketOut' = <<>>
    /\ lastCall' = <<>>
    /\ IF userID = Undefined
       THEN /\ fault' = TRUE
            /\ events' = <<>>
            /\ UNCHANGED challengeReceived
       ELSE IF challenge.challengee = userID
       THEN /\ events' = <<Event("rpsChallengeReceived", Argument)>>
            /\ IF ourPlayer = Undefined
               THEN /\ fault' = TRUE
                    /\ UNCHANGED challengeReceived
               ELSE /\ fault' = FALSE
                    /\ challengeReceived' =
                           IF challenge.challengee = ourPlayer
                           THEN challenge.challenger ELSE challengeReceived
       ELSE /\ events' = <<Event("rpsChallengeSent", Argument)>>
            /\ fault' = FALSE
            /\ UNCHANGED challengeReceived
    /\ UNCHANGED <<userID, ourPlayer, players, rpsGame, resultsSent, moveLog>>

\* socket.on('rpsGameEnded')
RecvGameEnded(gameResult) ==
    /\ handled' = "rpsGameEnded"
    /\ playersSeen' = <<>>
    /\ UNCHANGED <<conversationAreas, viewingAreas, leaderboard>>
    /\ joinRun' = <<>>
    /\ events' = <<Event("rpsGameEnded", Argument)>>
    /\ socketOut' = <<>>
    /\ lastCall' = <<>>
    /\ fault' = FALSE
    /\ UNCHANGED <<userID, ourPlayer, players, rpsGame, challengeReceived,
                   resultsSent, moveLog>>

\* socket.on('rpsGameChanged')
RecvGameChanged(changedRPS) ==
    /\ handled' = "rpsGameChanged"
    /\ playersSeen' = <<>>
    /\ UNCHANGED <<conversationAreas, viewingAreas, leaderboard>>
    /\ joinRun' = <<>>
    /\ events' = <<Event("rpsGameChanged", Argument)>>
    /\ socketOut' = <<>>
    /\ lastCall' = <<>>
    /\ fault' = FALSE
    /\ UNCHANGED <<userID, ourPlayer, players, rpsGame, challengeReceived,
                   resultsSent, moveLog>>

\* the rpsPlayerMove handler that opens a game for a move arriving early
RecvPlayerMove_earlyMoveKept(rpsMove) ==
    /\ handled' = "rpsPlayerMove"
    /\ playersSeen' = <<>>
    /\ UNCHANGED <<conversationAreas, viewingAreas, leaderboard>>
    /\ joinRun' = <<>>
    /\ LET game == IF rpsGame # <<>> THEN rpsGame[1]
                   ELSE NewRPS(rpsMove.player, rpsMove.opponent)
           finished == attemptToFinishGame(<<updateFrom(game, rpsMove)>>)
       IN /\ rpsGame' = finished.rpsGame
          /\ socketOut' = finished.socketOut
          /\ lastCall' = finished.lastCall
          /\ resultsSent' = resultsSent + Len(finished.socketOut)
    /\ events' = <<>>
    /\ fault' = FALSE
    /\ UNCHANGED <<userID, ourPlayer, players, challengeReceived, moveLog>>

\* socket.on('rpsPlayerMove')
RecvPlayerMove(rpsMove) ==
    /\ handled' = "rpsPlayerMove"
    /\ playersSeen' = <<>>
    /\ UNCHANGED <<conversationAreas, viewingAreas, leaderboard>>
    /\ joinRun' = <<>>
    /\ IF rpsGame # <<>>
       THEN LET finished == attemptToFinishGame(<<updateFrom(rpsGame[1], rpsMove)>>)
            IN /\ rpsGame' = finished.rpsGame
               /\ socketOut' = finished.socketOut
               /\ lastCall' = finished.lastCall
               /\ resultsSent' = resultsSent + Len(finished.socketOut)
       ELSE /\ socketOut' = <<>>
            /\ lastCall' = <<>>
            /\ UNCHANGED <<rpsGame, resultsSent>>
    /\ events' = <<>>
    /\ fault' = FALSE
    /\ UNCHANGED <<userID, ourPlayer, players, challengeReceived, moveLog>>

\* submitMove without the test that the move names this player
SubmitMove_noParticipantCheck(move) ==
    /\ handled' = "submitMove"
    /\ playersSeen' = <<>>
    /\ UNCHANGED <<conversationAreas, viewingAreas, leaderboard>>
    /\ joinRun' = <<>>
    /\ events' = <<>>
    /\ IF userID = Undefined
       THEN /\ fault' = TRUE
            /\ socketOut' = <<>>
            /\ lastCall' = <<>>
            /\ UNCHANGED <<rpsGame, resultsSent>>
       ELSE /\ fault' = FALSE
            /\ IF rpsGame # <<>>
               THEN LET finished ==
                            attemptToFinishGame(<<updateFrom(rpsGame[1], move)>>)
                    IN /\ rpsGame' = finished.rpsGame
                       /\ socketOut' = <<SocketMsg("rpsPlayerMove", Argument)>>
                                           \o finished.socketOut
                       /\ lastCall' = finished.lastCall
                       /\ resultsSent' = resultsSent + Len(finished.socketOut)
               ELSE /\ socketOut' = <<SocketMsg("rpsPlayerMove", Argument)>>
                    /\ lastCall' = <<>>
                    /\ UNCHANGED <<rpsGame, resultsSent>>
    /\ UNCHANGED <<userID, ourPlayer, players, challengeReceived, moveLog>>

\* submitMove that records the move without attempting to finish the game
SubmitMove_noFinishAttempt(move) ==
    /\ handled' = "submitMove"
    /\ playersSeen' = <<>>
    /\ UNCHANGED <<conversationAreas, viewingAreas, leaderboard>>
    /\ joinRun' = <<>>
    /\ events' = <<>>
    /\ lastCall' = <<>>
    /\ UNCHANGED resultsSent
    /\ IF userID = Undefined
       THEN /\ fault' = TRUE
            /\ socketOut' = <<>>
            /\ UNCHANGED rpsGame
       ELSE /\ fault' = FALSE
            /\ IF move.opponent = userID \/ move.player = userID
               THEN /\ socketOut' = <<SocketMsg("rpsPlayerMove", Argument)>>
                    /\ rpsGame' = IF rpsGame # <<>>
                                  THEN <<updateFrom(rpsGame[1], move)>>
                                  ELSE rpsGame
               ELSE /\ socketOut' = <<>>
                    /\ UNCHANGED rpsGame
    /\ UNCHANGED <<userID, ourPlayer, players, challengeReceived, moveLog>>

\* TownController.submitMove
SubmitMove(move) ==
    /\ handled' = "submitMove"
    /\ playersSeen' = <<>>
    /\ UNCHANGED <<conversationAreas, viewingAreas, leaderboard>>
    /\ joinRun' = <<>>
    /\ events' = <<>>
    /\ IF userID = Undefined
       THEN /\ fault' = TRUE
            /\ socketOut' = <<>>
            /\ lastCall' = <<>>
            /\ UNCHANGED <<rpsGame, resultsSent>>
       ELSE /\ fault' = FALSE
            /\ IF move.opponent = userID \/ move.player = userID
               THEN IF rpsGame # <<>>
                    THEN LET finished ==
                                 attemptToFinishGame(<<updateFrom(rpsGame[1], move)>>)
                         IN /\ rpsGame' = finished.rpsGame
                            /\ socketOut' = <<SocketMsg("rpsPlayerMove", Argument)>>
                                                \o finished.socketOut
                            /\ lastCall' = finished.lastCall
                            /\ resultsSent' = resultsSent + Len(finished.socketOut)
                    ELSE /\ socketOut' = <<SocketMsg("rpsPlayerMove", Argument)>>
                         /\ lastCall' = <<>>
                         /\ UNCHANGED <<rpsGame, resultsSent>>
               ELSE /\ socketOut' = <<>>
                    /\ lastCall' = <<>>
                    /\ UNCHANGED <<rpsGame, resultsSent>>
    /\ UNCHANGED <<userID, ourPlayer, players, challengeReceived, moveLog>>

\* challengePlayer that opens a game against the challenged player at once
ChallengePlayer_opensGame(player) ==
    /\ handled' = "challengePlayer"
    /\ playersSeen' = <<>>
    /\ UNCHANGED <<conversationAreas, viewingAreas, leaderboard>>
    /\ joinRun' = <<>>
    /\ IF ourPlayer = Undefined
       THEN /\ fault' = TRUE
            /\ socketOut' = <<>>
            /\ UNCHANGED rpsGame
       ELSE /\ fault' = FALSE
            /\ socketOut' = <<SocketMsg("rpsChallengeSent",
                                 [challenger |-> ourPlayer, challengee |-> player,
                                  response |-> JFalse])>>
            /\ rpsGame' = <<NewRPS(ourPlayer, player)>>
    /\ events' = <<>>
    /\ lastCall' = <<>>
    /\ UNCHANGED <<userID, ourPlayer, players, challengeReceived,
                   resultsSent, moveLog>>

\* TownController.challengePlayer; the ourPlayer getter asserts it is set
ChallengePlayer(player) ==
    /\ handled' = "challengePlayer"
    /\ playersSeen' = <<>>
    /\ UNCHANGED <<conversationAreas, viewingAreas, leaderboard>>
    /\ joinRun' = <<>>
    /\ IF ourPlayer = Undefined
       THEN /\ fault' = TRUE
            /\ socketOut' = <<>>
       ELSE /\ fault' = FALSE
            /\ socketOut' = <<SocketMsg("rpsChallengeSent",
                                 [challenger |-> ourPlayer, challengee |-> player,
                                  response |-> JFalse])>>
    /\ events' = <<>>
    /\ lastCall' = <<>>
    /\ UNCHANGED <<userID, ourPlayer, players, rpsGame, challengeReceived,
                   resultsSent, moveLog>>

\* startRPS that looks up the challengee only
startRPS_challengerUnchecked(response) ==
    LET challengee == FindPlayer(players, response.challengee)
    IN IF challengee # <<>>
       THEN [rpsGame |-> <<NewRPS(response.challenger, challengee[1].id)>>,
             resultsSent |-> 0,
             socketOut |-> <<SocketMsg("rpsGameChanged",
                                 [response EXCEPT !.response = JTrue])>>]
       ELSE [rpsGame |-> rpsGame, resultsSent |-> resultsSent,
             socketOut |-> <<>>]

\* startRPS that builds the game with the challengee first
startRPS_challengeeFirst(response) ==
    LET challenger == FindPlayer(players, response.challenger)
        challengee == FindPlayer(players, response.challengee)
    IN IF challenger # <<>> /\ challengee # <<>>
       THEN [rpsGame |-> <<NewRPS(challengee[1].id, challenger[1].id)>>,
             resultsSent |-> 0,
             socketOut |-> <<SocketMsg("rpsGameChanged",
                                 [response EXCEPT !.response = JTrue])>>]
       ELSE [rpsGame |-> rpsGame, resultsSent |-> resultsSent,
             socketOut |-> <<>>]

\* TownController.startRPS: the slot, the counter and the message it leaves
startRPS(response) ==
    LET challenger == FindPlayer(players, response.challenger)
        challengee == FindPlayer(players, response.challengee)
    IN IF challenger # <<>> /\ challengee # <<>>
       THEN [rpsGame |-> <<NewRPS(challenger[1].id, challengee[1].id)>>,
             resultsSent |-> 0,
             socketOut |-> <<SocketMsg("rpsGameChanged",
                                 [response EXCEPT !.response = JTrue])>>]
       ELSE [rpsGame |-> rpsGame, resultsSent |-> resultsSent,
             socketOut |-> <<>>]

StartRPS(response) ==
    /\ handled' = "startRPS"
    /\ playersSeen' = <<>>
    /\ UNCHANGED <<conversationAreas, viewingAreas, leaderboard>>
    /\ joinRun' = <<>>
    /\ LET started == startRPS(response)
       IN /\ rpsGame' = started.rpsGame
          /\ resultsSent' = started.resultsSent
          /\ socketOut' = started.socketOut
    /\ events' = <<>>
    /\ lastCall' = <<>>
    /\ fault' = FALSE
    /\ UNCHANGED <<userID, ourPlayer, players, challengeReceived, moveLog>>

\* AcceptChallengeRPS.acceptRPSChallenge: startRPS for the received challenge,
\* then closeModal, which withdraws the request when the challenger is known
AcceptRPSChallenge ==
    /\ handled' = "acceptRPSChallenge"
    /\ playersSeen' = <<>>
    /\ UNCHANGED <<conversationAreas, viewingAreas, leaderboard>>
    /\ joinRun' = <<>>
    /\ userID # Undefined /\ ourPlayer # Undefined
    /\ challengeReceived # Undefined
    /\ LET started == startRPS([challengee |-> ourPlayer,
                                challenger |-> challengeReceived,
                                response |-> JTrue])
           known == FindPlayer(players, challengeReceived) # <<>>
       IN /\ rpsGame' = started.rpsGame
          /\ resultsSent' = started.resultsSent
          /\ socketOut' = started.socketOut
          /\ events' = IF known
                       THEN <<Event("unPause", Undefined),
                              Event("rpsChallengeRemoved", ourPlayer)>>
                       ELSE <<Event("unPause", Undefined)>>
          /\ challengeReceived' = IF known THEN Undefined ELSE challengeReceived
    /\ lastCall' = <<>>
    /\ fault' = FALSE
    /\ UNCHANGED <<userID, ourPlayer, players, moveLog>>

\* AcceptChallengeRPS.closeModal on Cancel: the request against our player is
\* withdrawn when the challenger is in the roster, and the hook's
\* challengeRemovalHandler then forgets the challenger
DeclineRPSChallenge ==
    /\ handled' = "declineRPSChallenge"
    /\ playersSeen' = <<>>
    /\ UNCHANGED <<conversationAreas, viewingAreas, leaderboard>>
    /\ joinRun' = <<>>
    /\ userID # Undefined /\ ourPlayer # Undefined
    /\ challengeReceived # Undefined
    /\ LET known == FindPlayer(players, challengeReceived) # <<>>
       IN /\ events' = IF known
                       THEN <<Event("unPause", Undefined),
                              Event("rpsChallengeRemoved", ourPlayer)>>
                       ELSE <<Event("unPause", Undefined)>>
          /\ challengeReceived' = IF known THEN Undefined ELSE challengeReceived
    /\ socketOut' = <<>>
    /\ lastCall' = <<>>
    /\ fault' = FALSE
    /\ UNCHANGED <<userID, ourPlayer, players, rpsGame, resultsSent, moveLog>>

\* TownController.removeRPSGame: the challenge of the game is marked declined
\* and announced to the local listeners; nothing is done for undefined (<<>>)
RemoveRPSGame(game) ==
    /\ handled' = "removeRPSGame"
    /\ playersSeen' = <<>>
    /\ UNCHANGED <<conversationAreas, viewingAreas, leaderboard>>
    /\ joinRun' = <<>>
    /\ events' = IF game # <<>>
                 THEN <<Event("rpsGameChanged",
                              [game[1] EXCEPT !.response = JFalse])>>
                 ELSE <<>>
    /\ socketOut' = <<>>
    /\ lastCall' = <<>>
    /\ fault' = FALSE
    /\ UNCHANGED <<userID, ourPlayer, players, rpsGame, challengeReceived,
                   resultsSent, moveLog>>

\* the game changes other clients send: accepted (startRPS) or removed
InboundGameChanges == [challenger : Players, challengee : Players,
                       response : {JTrue, JFalse}]

\* the results controllers send: two different participants, draw set or not
RPSResults ==
    {r \in [winner : Players, loser : Players, draw : {Undefined, JTrue}] :
        r.winner # r.loser}

\* the townService sends initialize first on a new connection, announces a
\* player once, and the components call the controller once it is connected
Connected == userID # Undefined

Next ==
    \/ \E uid \in LocalUsers : \E snapshot \in Snapshots(uid) :
           Initialize(uid, snapshot, <<>>)
    \/ \E newPlayer \in PlayerModels :
           /\ Connected /\ newPlayer.id \notin PlayerIDs(players)
           /\ PlayerJoined(newPlayer)
    \/ \E disconnectedPlayer \in Players :
           Connected /\ PlayerDisconnect(disconnectedPlayer)
    \/ \E challenge \in InboundChallenges :
           Connected /\ RecvChallengeSent(challenge)
    \/ \E gameResult \in RPSResults : Connected /\ RecvGameEnded(gameResult)
    \/ \E changedRPS \in InboundGameChanges :
           Connected /\ RecvGameChanged(changedRPS)
    \/ \E rpsMove \in RPSPlayerMoves : Connected /\ RecvPlayerMove(rpsMove)
    \/ \E move \in RPSPlayerMoves : Connected /\ SubmitMove(move)
    \/ \E player \in Players : Connected /\ ChallengePlayer(player)
    \/ \E response \in InboundChallenges : Connected /\ StartRPS(response)
    \/ Connected /\ AcceptRPSChallenge
    \/ Connected /\ DeclineRPSChallenge

Spec == Init /\ [][Next]_vars

\* the roster on its own: the townService's roster messages in any order,
\* a playerJoined possibly delivered again for an identity already present
RosterNext ==
    \/ \E uid \in LocalUsers : \E snapshot \in Snapshots(uid) :
           Initialize(uid, snapshot, <<>>)
    \/ \E newPlayer \in PlayerModels : Connected /\ PlayerJoined(newPlayer)
    \/ \E disconnectedPlayer \in Players :
           Connected /\ PlayerDisconnect(disconnectedPlayer)
    \/ \E movedPlayer \in MovedPlayers : Connected /\ PlayerMoved(movedPlayer)

SpecRoster == Init /\ [][RosterNext]_vars

\* the roster and the areas: the snapshot with its interactables, players
\* entering and leaving, and area updates
AreasNext ==
    \/ \E uid \in LocalUsers : \E snapshot \in Snapshots(uid) :
           \E interactables \in InitialInteractables :
               Initialize(uid, snapshot, interactables)
    \/ \E newPlayer \in PlayerModels :
           /\ Connected /\ newPlayer.id \notin PlayerIDs(players)
           /\ PlayerJoined(newPlayer)
    \/ \E disconnectedPlayer \in Players :
           Connected /\ PlayerDisconnect(disconnectedPlayer)
    \/ \E interactable \in ConversationAreaModels \cup ViewingAreaModels :
           Connected /\ InteractableUpdate(interactable)

SpecAreas == Init /\ [][AreasNext]_vars

\* socket.on('townClosing')
TownClosing ==
    /\ handled' = "townClosing"
    /\ playersSeen' = <<>>
    /\ UNCHANGED <<conversationAreas, viewingAreas, leaderboard>>
    /\ events' = <<Event("disconnect", Undefined),
                   Event("setTownController", Undefined)>>
    /\ socketOut' = <<>>
    /\ lastCall' = <<>>
    /\ fault' = FALSE
    /\ joinRun' = <<>>
    /\ UNCHANGED <<userID, ourPlayer, players, rpsGame, challengeReceived,
                   resultsSent, moveLog>>

\* socket.on('disconnect') registered by connect(): it rejects the promise of
\* connect(), which has no effect once initialize has resolved it
SocketDisconnect ==
    /\ handled' = "disconnect"
    /\ playersSeen' = <<>>
    /\ UNCHANGED <<conversationAreas, viewingAreas, leaderboard>>
    /\ events' = <<>>
    /\ socketOut' = <<>>
    /\ lastCall' = <<>>
    /\ fault' = FALSE
    /\ joinRun' = <<>>
    /\ UNCHANGED <<userID, ourPlayer, players, rpsGame, challengeReceived,
                   resultsSent, moveLog>>

\* TownController.disconnect
Disconnect ==
    /\ handled' = "disconnect()"
    /\ playersSeen' = <<>>
    /\ UNCHANGED <<conversationAreas, viewingAreas, leaderboard>>
    /\ events' = <<Event("setTownController", Undefined)>>
    /\ socketOut' = <<SocketMsg("disconnect()", Undefined)>>
    /\ lastCall' = <<>>
    /\ fault' = FALSE
    /\ joinRun' = <<>>
    /\ UNCHANGED <<userID, ourPlayer, players, rpsGame, challengeReceived,
                   resultsSent, moveLog>>

\* a contest in a town whose connection ends: the snapshot, a challenge
\* received, the operations the components call, moves, and the ways the
\* session ends
SessionNext ==
    \/ \E uid \in LocalUsers : \E snapshot \in Snapshots(uid) :
           Initialize(uid, snapshot, <<>>)
    \/ \E challenge \in InboundChallenges :
           Connected /\ RecvChallengeSent(challenge)
    \/ Connected /\ AcceptRPSChallenge
    \/ Connected /\ DeclineRPSChallenge
    \/ \E response \in InboundChallenges : Connected /\ StartRPS(response)
    \/ \E player \in Players : Connected /\ ChallengePlayer(player)
    \/ \E game \in {<<>>} \cup {<<g>> : g \in InboundGameChanges} :
           Connected /\ RemoveRPSGame(game)
    \/ \E rpsMove \in RPSPlayerMoves : Connected /\ RecvPlayerMove(rpsMove)
    \/ \E move \in RPSPlayerMoves : Connected /\ SubmitMove(move)
    \/ Connected /\ TownClosing
    \/ Connected /\ SocketDisconnect
    \/ Connected /\ Disconnect

SpecSession == Init /\ [][SessionNext]_vars

\* messages the socket delivers ahead of the initialize snapshot, then the
\* snapshot
EarlyNext ==
    \/ \E uid \in LocalUsers : \E snapshot \in Snapshots(uid) :
           Initialize(uid, snapshot, <<>>)
    \/ \E newPlayer \in PlayerModels : ~Connected /\ PlayerJoined(newPlayer)
    \/ \E disconnectedPlayer \in Players :
           ~Connected /\ PlayerDisconnect(disconnectedPlayer)
    \/ \E movedPlayer \in MovedPlayers : ~Connected /\ PlayerMoved(movedPlayer)
    \/ \E interactable \in ConversationAreaModels \cup ViewingAreaModels :
           ~Connected /\ InteractableUpdate(interactable)
    \/ \E challenge \in InboundChallenges :
           ~Connected /\ RecvChallengeSent(challenge)
    \/ \E gameResult \in RPSResults : ~Connected /\ RecvGameEnded(gameResult)
    \/ \E rpsMove \in RPSPlayerMoves : ~Connected /\ RecvPlayerMove(rpsMove)

SpecEarly == Init /\ [][EarlyNext]_vars

\* players.sort((a, b) => b.score - a.score): descending by score, players
\* of equal score keeping their order
RECURSIVE sortByScore(_)
sortByScore(playerList) ==
    IF playerList = <<>>
    THEN <<>>
    ELSE LET sorted == sortByScore(SubSeq(playerList, 1, Len(playerList) - 1))
             last == playerList[Len(playerList)]
             ahead == Cardinality({i \in DOMAIN sorted :
                                       sorted[i].score >= last.score})
         IN SubSeq(sorted, 1, ahead) \o <<last>>
                \o SubSeq(sorted, ahead + 1, Len(sorted))

\* top10 of useLeaderboard: the array it was given, sorted in place, and the
\* slice of its first entries that it returns
top10(playerList) ==
    LET sorted == sortByScore(playerList)
        kept == IF Len(sorted) < LeaderboardSize
                THEN Len(sorted) ELSE LeaderboardSize
    IN [players |-> sorted, leaderboard |-> SubSeq(sorted, 1, kept)]

\* a component calls useLeaderboard(): every call evaluates
\* top10(townController.players); the first call's value becomes the state
UseLeaderboard ==
    /\ handled' = "useLeaderboard"
    /\ playersSeen' = <<>>
    /\ joinRun' = <<>>
    /\ LET top == top10(players)
       IN /\ players' = top.players
          /\ leaderboard' = IF leaderboard = <<>>
                            THEN <<top.leaderboard>> ELSE leaderboard
    /\ events' = <<>>
    /\ socketOut' = <<>>
    /\ lastCall' = <<>>
    /\ fault' = FALSE
    /\ UNCHANGED <<userID, ourPlayer, rpsGame, challengeReceived, resultsSent,
                   moveLog, conversationAreas, viewingAreas>>

\* the updateLeaderboard listener of the hook, run by a playerScoreUpdated
\* event on the controller
PlayerScoreUpdated ==
    /\ handled' = "playerScoreUpdated"
    /\ playersSeen' = <<>>
    /\ joinRun' = <<>>
    /\ leaderboard # <<>>
    /\ LET top == top10(players)
       IN /\ players' = top.players
          /\ leaderboard' = <<top.leaderboard>>
    /\ events' = <<>>
    /\ socketOut' = <<>>
    /\ lastCall' = <<>>
    /\ fault' = FALSE
    /\ UNCHANGED <<userID, ourPlayer, rpsGame, challengeReceived, resultsSent,
                   moveLog, conversationAreas, viewingAreas>>

\* the rosters of a connected town whose players hold scores: distinct
\* players, ours first found among them
ScoredRosters(uid) ==
    {[i \in DOMAIN snapshot |->
          [id |-> snapshot[i].id, score |-> scores[i],
           location |-> snapshot[i].location,
           isOurPlayer |-> (i = FindIndex(snapshot, uid))]] :
        snapshot \in Snapshots(uid), scores \in [1..MaxRoster -> 0..MaxScore]}

\* a connected controller of a town whose players hold scores
LeaderboardInit ==
    /\ \E uid \in LocalUsers :
           /\ userID = uid
           /\ ourPlayer = uid
           /\ players \in ScoredRosters(uid)
    /\ rpsGame = <<>>
    /\ challengeReceived = Undefined
    /\ resultsSent = 0
    /\ socketOut = <<>>
    /\ events = <<>>
    /\ lastCall = <<>>
    /\ fault = FALSE
    /\ handled = Undefined
    /\ playersSeen = <<>>
    /\ moveLog = <<>>
    /\ joinRun = <<>>
    /\ conversationAreas = <<>>
    /\ viewingAreas = <<>>
    /\ leaderboard = <<>>

\* the leaderboard component in a town where players enter and leave
LeaderboardNext ==
    \/ UseLeaderboard
    \/ PlayerScoreUpdated
    \/ \E newPlayer \in PlayerModels :
           /\ newPlayer.id \notin PlayerIDs(players)
           /\ PlayerJoined(newPlayer)
    \/ \E disconnectedPlayer \in Players : PlayerDisconnect(disconnectedPlayer)

SpecLeaderboard == LeaderboardInit /\ [][LeaderboardNext]_vars

\* ------------------------------------------------ claims on the controller
\* how many messages of a type a handler run handed to the socket
CountType(messages, type) ==
    Cardinality({i \in DOMAIN messages : messages[i].type = type})

\* the score of the first roster entry with an identity
ScoreOf(playerList, id) == FindPlayer(playerList, id)[1].score

\* the handlers that record a move: the inbound message and submitMove
MoveHandlers == {"rpsPlayerMove", "submitMove"}

\* C4: the controller sends at most one rpsGameEnded for a contest instance;
\* a move delivered or submitted after the instance was resolved sends no
\* further result and changes no contest state.
C4_OneResultPerInstance ==
    [][ /\ resultsSent' <= 1
        /\ (resultsSent = 1 /\ rpsGame = <<>> /\ handled' \in MoveHandlers) =>
               /\ rpsGame' = <<>>
               /\ resultsSent' = 1
               /\ CountType(socketOut', "rpsGameEnded") = 0
               /\ lastCall' = <<>>
               /\ challengeReceived' = challengeReceived
               /\ players' = players ]_vars

\* the completing move delivered again after the instance was resolved
C4_Witness ==
    /\ handled = "rpsPlayerMove"
    /\ resultsSent = 1
    /\ rpsGame = <<>>
    /\ socketOut = <<>>

\* C5: the step that records the move filling the second slot, by submitMove
\* or by an inbound rpsPlayerMove, computes the result, sends exactly one
\* rpsGameEnded and empties the slot; no state holds a game that is ready to
\* complete, and startRPS builds a new game once the slot is empty again.
C5_ResolvedInTheCompletingStep ==
    [][ /\ \A game \in Range(rpsGame') : ~BothRecorded(game)
        /\ (handled' \in MoveHandlers /\ rpsGame # <<>> /\ rpsGame' = <<>>) =>
               /\ CountType(socketOut', "rpsGameEnded") = 1
               /\ Len(lastCall') = 1
               /\ BothRecorded(lastCall'[1].game)
               /\ lastCall'[1].game.playerOne = rpsGame[1].playerOne
               /\ lastCall'[1].game.playerTwo = rpsGame[1].playerTwo
               /\ \/ lastCall'[1].game.playerOneMove = rpsGame[1].playerOneMove
                  \/ lastCall'[1].game.playerTwoMove = rpsGame[1].playerTwoMove
               /\ SocketMsg("rpsGameEnded", lastCall'[1].result)
                      \in Range(socketOut')
        /\ (handled' \in MoveHandlers /\ rpsGame' # <<>>) =>
               CountType(socketOut', "rpsGameEnded") = 0
        /\ (handled' = "startRPS" /\ rpsGame = <<>> /\ resultsSent = 1) =>
               \A response \in InboundChallenges :
                   (/\ StartRPS(response)
                    /\ {response.challenger, response.challengee}
                           \subseteq PlayerIDs(players)) =>
                       rpsGame' = <<[playerOne |-> response.challenger,
                                     playerTwo |-> response.challengee,
                                     playerOneMove |-> Undefined,
                                     playerTwoMove |-> Undefined]>> ]_vars

\* our own move completed the pair: the result went out and the slot is empty
C5_Witness ==
    /\ handled = "submitMove"
    /\ rpsGame = <<>>
    /\ CountType(socketOut, "rpsGameEnded") = 1
    /\ resultsSent = 1

\* C6: accepting the challenge received from a challenger makes the contest
\* active with the challenger first, the accepting player second and both
\* slots empty; when the first then holds Rock and the second Scissors the
\* result sent names the first as winner, the second as loser and no draw.
C6_AcceptThenRockBeatsScissors ==
    [][ /\ (/\ handled' = "acceptRPSChallenge"
            /\ {challengeReceived, ourPlayer} \subseteq PlayerIDs(players)) =>
               /\ rpsGame' = <<[playerOne |-> challengeReceived,
                                playerTwo |-> ourPlayer,
                                playerOneMove |-> Undefined,
                                playerTwoMove |-> Undefined]>>
               /\ CountType(socketOut', "rpsGameChanged") = 1
        /\ \A c \in Range(lastCall') :
               (c.game.playerOneMove = ROCK
                /\ c.game.playerTwoMove = SCISSORS) =>
                   /\ c.result.winner = c.game.playerOne
                   /\ c.result.loser = c.game.playerTwo
                   /\ c.result.draw # JTrue
                   /\ SocketMsg("rpsGameEnded", c.result)
                          \in Range(socketOut') ]_vars

\* the challenger's Rock had arrived and our Scissors completed the game
C6_Witness ==
    /\ handled = "submitMove"
    /\ \E c \in Range(lastCall) :
           /\ c.game.playerTwo = ourPlayer
           /\ c.game.playerOne # ourPlayer
           /\ c.game.playerOneMove = ROCK
           /\ c.game.playerTwoMove = SCISSORS
           /\ SocketMsg("rpsGameEnded",
                  [winner |-> c.game.playerOne, loser |-> c.game.playerTwo,
                   draw |-> Undefined]) \in Range(socketOut)

\* C7: a participant's score changes only when a delivered result names the
\* participant as winner and is no draw; such a result raises the winner's
\* score and leaves the loser's, and a draw changes no score.
C7_ScoreFollowsResult ==
    [][ /\ handled' = "rpsGameEnded" =>
               \A r \in RPSResults :
                   (RecvGameEnded(r)
                    /\ {r.winner, r.loser} \subseteq PlayerIDs(players)) =>
                       IF r.draw = JTrue
                       THEN players' = players
                       ELSE /\ ScoreOf(players', r.winner)
                                   > ScoreOf(players, r.winner)
                            /\ ScoreOf(players', r.loser)
                                   = ScoreOf(players, r.loser)
        /\ \A id \in PlayerIDs(players) \cap PlayerIDs(players') :
               ScoreOf(players', id) # ScoreOf(players, id) =>
                   handled' = "rpsGameEnded" ]_vars

\* C8: while a contest of this player is active, a challenge a third identity
\* sends to this player is rejected: it is not offered as a received
\* challenge, and the active instance is unchanged.
C8_ThirdPartyChallengeRejected ==
    [][ (/\ handled' = "rpsChallengeSent"
         /\ rpsGame # <<>>
         /\ userID \in {rpsGame[1].playerOne, rpsGame[1].playerTwo}
         /\ rpsGame[1].playerOne # rpsGame[1].playerTwo) =>
            \A challenge \in InboundChallenges :
                (/\ RecvChallengeSent(challenge)
                 /\ challenge.challengee = userID
                 /\ challenge.challenger \notin {rpsGame[1].playerOne,
                                                 rpsGame[1].playerTwo}) =>
                    /\ rpsGame' = rpsGame
                    /\ challengeReceived' = challengeReceived
                    /\ CountType(events', "rpsChallengeReceived") = 0 ]_vars

\* C9: startRPS on an occupied slot is rejected and leaves the instance in
\* the slot, with its participants and recorded choices, untouched.
C9_StartRejectedWhileOccupied ==
    [][ (handled' \in {"startRPS", "acceptRPSChallenge"} /\ rpsGame # <<>>) =>
            /\ rpsGame' = rpsGame
            /\ socketOut' = <<>> ]_vars

\* the participants of a game
Participants(game) == {game.playerOne, game.playerTwo}

\* the operations that start a game
StartHandlers == {"startRPS", "acceptRPSChallenge"}

\* C11: a move whose player is neither participant of the game in the slot is
\* ignored: updateFrom leaves both choice slots as they were, and the
\* rpsPlayerMove handler sends nothing, raises no error and keeps the game.
C11_StrangerMoveIgnored ==
    [][ (handled' = "rpsPlayerMove" /\ rpsGame # <<>>) =>
            \A rpsMove \in RPSPlayerMoves :
                rpsMove.player \notin Participants(rpsGame[1]) =>
                    /\ updateFrom(rpsGame[1], rpsMove) = rpsGame[1]
                    /\ RecvPlayerMove(rpsMove) =>
                           /\ rpsGame' = rpsGame
                           /\ socketOut' = <<>>
                           /\ lastCall' = <<>>
                           /\ fault' = FALSE ]_vars

\* a move arrived for a game of two others that still has both slots empty:
\* only a stranger's move leaves it so
C11_Witness ==
    /\ handled = "rpsPlayerMove"
    /\ \E game \in Range(rpsGame) :
           /\ game.playerOne # game.playerTwo
           /\ game.playerOneMove = Undefined
           /\ game.playerTwoMove = Undefined
    /\ socketOut = <<>>
    /\ ~fault

\* C12: challengePlayer aimed at an identity that is not in the roster is
\* rejected with an error raised to the caller, and hands no challenge to the
\* socket.
C12_AbsentChallengeeRejected ==
    [][ handled' = "challengePlayer" =>
            \A player \in Players \ PlayerIDs(players) :
                ChallengePlayer(player) =>
                    /\ fault' = TRUE
                    /\ CountType(socketOut', "rpsChallengeSent") = 0 ]_vars

\* C13: submitMove with a move that names this player neither as player nor
\* as opponent is rejected at once: nothing goes to the socket and the slot
\* with its game and both choices is as before.
C13_ForeignMoveRejected ==
    [][ handled' = "submitMove" =>
            \A move \in RPSPlayerMoves :
                (userID \notin {move.player, move.opponent}
                 /\ SubmitMove(move)) =>
                    /\ socketOut' = <<>>
                    /\ rpsGame' = rpsGame
                    /\ lastCall' = <<>>
                    /\ resultsSent' = resultsSent
                    /\ fault' = FALSE ]_vars

\* with a game in the slot a submitMove sent nothing: the move was foreign
C13_Witness ==
    /\ handled = "submitMove"
    /\ socketOut = <<>>
    /\ ~fault
    /\ \E game \in Range(rpsGame) : game.playerOneMove # Undefined

\* C14: a game is created only by the accept of the challengee of a pending
\* challenge: the step that creates it is made with a challenge received and
\* not declined, by the player that challenge names as challengee.
C14_ActiveOnlyByAccept ==
    [][ (handled' \in StartHandlers /\ socketOut' # <<>>) =>
            /\ challengeReceived # Undefined
            /\ rpsGame' # <<>>
            /\ rpsGame'[1].playerOne = challengeReceived
            /\ rpsGame'[1].playerTwo = ourPlayer ]_vars

\* C15: while no game is in the slot a submitted or received move is
\* recorded nowhere and resolves nothing, and a game created afterwards
\* starts with both choice slots empty.
C15_NoMoveBeforeActive ==
    [][ /\ (handled' \in MoveHandlers /\ rpsGame = <<>>) =>
               /\ rpsGame' = <<>>
               /\ lastCall' = <<>>
               /\ CountType(socketOut', "rpsGameEnded") = 0
               /\ resultsSent' = resultsSent
        /\ (handled' \in StartHandlers /\ socketOut' # <<>>) =>
               /\ rpsGame' # <<>>
               /\ rpsGame'[1].playerOneMove = Undefined
               /\ rpsGame'[1].playerTwoMove = Undefined ]_vars

\* a challenge is pending, no game was ever started, and a move arrived
C15_Witness ==
    /\ handled = "rpsPlayerMove"
    /\ challengeReceived # Undefined
    /\ rpsGame = <<>>
    /\ resultsSent = 0
    /\ lastCall = <<>>

\* C16: declining a pending challenge hands a withdrawal to the socket for
\* the other party and forgets the challenge, so that it cannot be accepted
\* any more.
C16_DeclineReachesOtherParty ==
    [][ handled' = "declineRPSChallenge" =>
            /\ socketOut' # <<>>
            /\ challengeReceived' = Undefined ]_vars

\* C17: a playerJoined for an identity already in the roster changes nothing,
\* and the roster never holds two entries with the same identity.
C17_NoDuplicateIdentity ==
    [][ /\ (handled' = "playerJoined"
            /\ joinRun'[1].id \in PlayerIDs(players)) => players' = players
        /\ \A i, j \in DOMAIN players' :
               players'[i].id = players'[j].id => i = j ]_vars

C19_MoveUpdatesOneOrAdds ==
    [][ handled' = "playerMoved" =>
            \A movedPlayer \in MovedPlayers :
                PlayerMoved(movedPlayer) =>
                    IF movedPlayer.id \in PlayerIDs(players)
                    THEN LET first == FindIndex(players, movedPlayer.id)
                         IN /\ Len(players') = Len(players)
                            /\ \A i \in DOMAIN players :
                                   /\ i # first => players'[i] = players[i]
                                   /\ [players'[i] EXCEPT !.location =
                                           players[i].location] = players[i]
                            /\ players'[first].location.interactableID =
                                   movedPlayer.location.interactableID
                            /\ players'[first].location.xy =
                                   IF players[first].isOurPlayer
                                   THEN players[first].location.xy
                                   ELSE movedPlayer.location.xy
                    ELSE /\ Len(players') = Len(players) + 1
                         /\ SubSeq(players', 1, Len(players)) = players
                         /\ players'[Len(players')].id = movedPlayer.id
                         /\ players'[Len(players')].location =
                                movedPlayer.location ]_vars

\* a playerMoved brought an unknown identity into a town of others
C19_Witness ==
    /\ handled = "playerMoved"
    /\ CountType(events, "playersChanged") = 1
    /\ Len(players) >= 2
    /\ players[Len(players)].location # Spawn

\* the handlers of the roster messages
RosterHandlers == {"playerJoined", "playerDisconnect", "playerMoved"}

\* a handler run raised exactly one playersChanged, carrying a roster
NotifiedOnceWith(emitted, playerList) ==
    /\ CountType(emitted, "playersChanged") = 1
    /\ Event("playersChanged", playerList) \in Range(emitted)

\* C20 as stated: each of playerJoined, playerDisconnect and playerMoved
\* raises exactly one playersChanged whose payload is the resulting roster.
C20_EveryRosterMessageNotifies ==
    [][ handled' \in RosterHandlers =>
            NotifiedOnceWith(events', players') ]_vars

\* C20: playerJoined and playerDisconnect each raise exactly one
\* playersChanged whose payload is the resulting roster; playerMoved raises
\* one only when it adds an unknown identity, and none, only playerMoved,
\* when it updates an entry of the roster.
C20_MembershipChangeNotifies ==
    [][ /\ handled' \in {"playerJoined", "playerDisconnect"} =>
               NotifiedOnceWith(events', players')
        /\ handled' = "playerMoved" =>
               IF Len(players') # Len(players)
               THEN NotifiedOnceWith(events', players')
               ELSE /\ CountType(events', "playersChanged") = 0
                    /\ CountType(events', "playerMoved") = 1 ]_vars

\* a player of the roster moved away and no playersChanged was raised
C20_Witness ==
    /\ handled = "playerMoved"
    /\ CountType(events, "playersChanged") = 0
    /\ \E i \in DOMAIN players : players[i].location.xy = "away"

\* the identities of a list of areas
AreaIDs(areas) == {areas[i].id : i \in DOMAIN areas}

\* C21: an interactableUpdate for a conversation area the controller holds
\* overwrites the area's topic and occupants (the roster's players among the
\* identities of the update) and raises conversationAreasChanged, once, with
\* the whole list, exactly when the area was empty before and is not after,
\* or the reverse.
C21_KnownAreaOverwritten ==
    [][ handled' = "interactableUpdate" =>
            \A interactable \in ConversationAreaModels :
                (/\ interactable.id \in AreaIDs(conversationAreas)
                 /\ InteractableUpdate(interactable)) =>
                    \A i \in DOMAIN conversationAreas :
                        IF conversationAreas[i].id = interactable.id
                        THEN /\ conversationAreas'[i].topic = interactable.topic
                             /\ Range(conversationAreas'[i].occupants) =
                                    interactable.occupantsByID
                                        \cap PlayerIDs(players)
                             /\ (conversationAreas[i].occupants = <<>>)
                                    # (conversationAreas'[i].occupants = <<>>)
                                  => events' = <<Event("conversationAreasChanged",
                                                       conversationAreas')>>
                             /\ (conversationAreas[i].occupants = <<>>)
                                    = (conversationAreas'[i].occupants = <<>>)
                                  => events' = <<>>
                        ELSE conversationAreas'[i] = conversationAreas[i] ]_vars

\* an update brought the first occupants into the area, and was notified
C21_Witness ==
    /\ handled = "interactableUpdate"
    /\ CountType(events, "conversationAreasChanged") = 1
    /\ \E i \in DOMAIN conversationAreas :
           /\ conversationAreas[i].occupants # <<>>
           /\ conversationAreas[i].topic = "chat"

\* C22: an interactableUpdate whose identity matches none of the areas is
\* dropped: both lists of areas with all their fields stay as they are and
\* nothing is notified; no update ever adds an area.
C22_UnknownAreaDropped ==
    [][ handled' = "interactableUpdate" =>
            /\ AreaIDs(conversationAreas') = AreaIDs(conversationAreas)
            /\ Len(conversationAreas') = Len(conversationAreas)
            /\ AreaIDs(viewingAreas') = AreaIDs(viewingAreas)
            /\ Len(viewingAreas') = Len(viewingAreas)
            /\ \A interactable \in ConversationAreaModels \cup ViewingAreaModels :
                   (/\ interactable.id \notin AreaIDs(conversationAreas)
                                                  \cup AreaIDs(viewingAreas)
                    /\ InteractableUpdate(interactable)) =>
                       /\ conversationAreas' = conversationAreas
                       /\ viewingAreas' = viewingAreas
                       /\ events' = <<>> ]_vars

\* an update arrived in a town whose snapshot brought no area at all
C22_Witness ==
    /\ handled = "interactableUpdate"
    /\ userID # Undefined
    /\ events = <<>>
    /\ conversationAreas = <<>>
    /\ viewingAreas = <<>>

\* C23: the occupants of every area are identities of the roster.
C23_OccupantsInRoster ==
    \A i \in DOMAIN conversationAreas :
        Range(conversationAreas[i].occupants) \subseteq PlayerIDs(players)

\* the computations of the leaderboard
LeaderboardHandlers == {"useLeaderboard", "playerScoreUpdated"}

\* C24: computing the leaderboard leaves the roster the controller holds, as
\* the players accessor returns it, in the order it had.
C24_LeaderboardKeepsRosterOrder ==
    [][ handled' \in LeaderboardHandlers => players' = players ]_vars

\* a list holds the highest-scoring players of a roster of distinct players,
\* at most LeaderboardSize of them, in descending order of score
IsTopOf(board, playerList) ==
    /\ Len(board) = IF Len(playerList) < LeaderboardSize
                    THEN Len(playerList) ELSE LeaderboardSize
    /\ Range(board) \subseteq Range(playerList)
    /\ Cardinality(Range(board)) = Len(board)
    /\ \A i, j \in DOMAIN board : i < j => board[i].score >= board[j].score
    /\ \A p \in Range(playerList) \ Range(board) :
           \A q \in Range(board) : p.score <= q.score

\* C25: once the leaderboard is in use, after every step that raises
\* playersChanged and after every playerScoreUpdated the leaderboard holds
\* the highest-scoring players of the resulting roster in descending order.
C25_LeaderboardFollowsRoster ==
    [][ (/\ leaderboard # <<>>
         /\ \/ CountType(events', "playersChanged") > 0
            \/ handled' = "playerScoreUpdated") =>
            /\ leaderboard' # <<>>
            /\ IsTopOf(leaderboard'[1], players') ]_vars

\* C26: a message other than initialize that arrives before the initialize
\* snapshot is not processed: roster, areas and contest state stay as they
\* are, nothing is notified and nothing fails.
C26_EarlyMessagesNotProcessed ==
    [][ (userID = Undefined /\ handled' # "initialize") =>
            /\ players' = players
            /\ conversationAreas' = conversationAreas
            /\ viewingAreas' = viewingAreas
            /\ rpsGame' = rpsGame
            /\ challengeReceived' = challengeReceived
            /\ events' = <<>>
            /\ ~fault' ]_vars

\* the ways a session ends: the town closes, the transport disconnects, the
\* player leaves
SessionEnds == {"townClosing", "disconnect", "disconnect()"}

\* C27: when the session ends while a game is in the slot, the game is
\* discarded, no result is sent for it, and the listeners get the disconnect
\* event.
C27_DisconnectDiscardsContest ==
    [][ (handled' \in SessionEnds /\ rpsGame # <<>>) =>
            /\ rpsGame' = <<>>
            /\ CountType(socketOut', "rpsGameEnded") = 0
            /\ CountType(events', "disconnect") = 1 ]_vars

\* the operations that send or withdraw a challenge
ChallengeOperations == {"challengePlayer", "declineRPSChallenge",
                        "removeRPSGame"}

\* C28 (as stated): challengePlayer, the withdraw operations and startRPS all
\* leave the game slot and the recorded choices as they were.
C28_OnlySubmitMoveChangesContest ==
    [][ handled' \in ChallengeOperations \cup {"startRPS"} =>
            rpsGame' = rpsGame ]_vars

\* C28: challengePlayer and the withdraw operations leave the game slot and
\* the recorded choices as they were; startRPS for two players of the roster
\* puts a new game without choices in the slot, and otherwise leaves it.
C28_ChallengeOperationsKeepContest ==
    [][ /\ handled' \in ChallengeOperations => rpsGame' = rpsGame
        /\ handled' = "startRPS" =>
               \A response \in InboundChallenges : StartRPS(response) =>
                   rpsGame' =
                       IF {response.challenger, response.challengee}
                              \subseteq PlayerIDs(players)
                       THEN <<NewRPS(response.challenger,
                                     response.challengee)>>
                       ELSE rpsGame ]_vars

\* a challenge was sent while a game with a recorded choice is in the slot
C28_Witness ==
    /\ handled = "challengePlayer"
    /\ ~fault
    /\ rpsGame # <<>>
    /\ rpsGame[1].playerOneMove # Undefined

\* C29: when the acceptance of our player's own challenge arrives, this
\* controller too holds the game of the two players, as the accepting
\* controller does after startRPS.
C29_ChallengerHoldsContest ==
    [][ handled' = "rpsGameChanged" =>
            \A changedRPS \in InboundGameChanges :
                ( /\ RecvGameChanged(changedRPS)
                  /\ changedRPS.response = JTrue
                  /\ changedRPS.challenger = userID
                  /\ changedRPS.challengee \in PlayerIDs(players) ) =>
                    /\ rpsGame' # <<>>
                    /\ rpsGame'[1].playerOne = changedRPS.challenger
                    /\ rpsGame'[1].playerTwo = changedRPS.challengee ]_vars

\* the calls that ran both resolvers
BothResolved == {c \in Range(lastCall) : "server" \in DOMAIN c}

\* C30: on every pair of recorded choices Game.calculateWinner returns
\* undefined exactly when calculateWinnerFromMoves reports a draw, and
\* otherwise returns the player calculateWinnerFromMoves names as winner.
C30_ResolversAgree ==
    \A c \in BothResolved :
        /\ (c.server = Undefined) <=> (c.result.draw = JTrue)
        /\ c.server # Undefined => c.server = c.result.winner

\* both resolvers name the second player, who holds Rock against Scissors
C30_Witness ==
    \E c \in BothResolved :
        /\ c.game.playerOneMove = SCISSORS /\ c.game.playerTwoMove = ROCK
        /\ c.game.playerOne # c.game.playerTwo
        /\ c.server = c.game.playerTwo
        /\ c.result.winner = c.game.playerTwo

\* ------------------------------------- the RPS class that tracks a status
\* (classes/RPS.ts): the instance is kept in rpsGame with its status, and
\* events holds the calls its listeners have received since it was built
GameStatusNEW == "NEW"
GameStatusSTARTED == "STARTED"
GameStatusFINISHED == "FINISHED"

\* new RPS(playerOne, playerTwo)
NewStatusRPS(playerOne, playerTwo) ==
    [playerOne |-> playerOne, playerTwo |-> playerTwo,
     playerOneMove |-> Undefined, playerTwoMove |-> Undefined,
     status |-> GameStatusNEW]

\* the status setter: statusChange is emitted when the status differs
setStatus(game, newStatus) ==
    [game |-> [game EXCEPT !.status = newStatus],
     emitted |-> IF game.status # newStatus
                 THEN <<Event("statusChange", newStatus)>> ELSE <<>>]

\* RPS.selectMove: the move of a participant is stored, nothing else
selectMove(game, player, move) ==
    [game |-> IF game.playerOne = player
              THEN [game EXCEPT !.playerOneMove = move]
              ELSE IF game.playerTwo = player
              THEN [game EXCEPT !.playerTwoMove = move]
              ELSE game,
     emitted |-> <<>>]

\* RPS.calculateWinnerFromMoves of classes/RPS.ts: the result of the same
\* decision table, and the status set to FINISHED unless it is a draw
calculateWinnerFromMovesWithStatus(game) ==
    LET result == calculateWinnerFromMoves(game)
    IN IF result.draw = JTrue
       THEN [game |-> game, emitted |-> <<>>, result |-> result]
       ELSE [game |-> setStatus(game, GameStatusFINISHED).game,
             emitted |-> setStatus(game, GameStatusFINISHED).emitted,
             result |-> result]

StatusInit ==
    /\ \E playerOne \in Players, playerTwo \in Players :
           rpsGame = <<NewStatusRPS(playerOne, playerTwo)>>
    /\ userID = Undefined
    /\ ourPlayer = Undefined
    /\ players = <<>>
    /\ challengeReceived = Undefined
    /\ resultsSent = 0
    /\ socketOut = <<>>
    /\ events = <<>>
    /\ lastCall = <<>>
    /\ fault = FALSE
    /\ handled = Undefined
    /\ playersSeen = <<>>
    /\ moveLog = <<>>
    /\ joinRun = <<>>
    /\ conversationAreas = <<>>
    /\ viewingAreas = <<>>
    /\ leaderboard = <<>>

\* rps.startGame(): the setter, then one more statusChange
StatusStartGame ==
    /\ handled' = "startGame"
    /\ playersSeen' = <<>>
    /\ LET started == setStatus(rpsGame[1], GameStatusSTARTED)
       IN /\ rpsGame' = <<started.game>>
          /\ events' = events \o started.emitted
                           \o <<Event("statusChange", GameStatusSTARTED)>>
    /\ Len(events') <= MaxEmits
    /\ lastCall' = <<>>
    /\ UNCHANGED <<userID, ourPlayer, players, challengeReceived, resultsSent,
                   socketOut, fault, moveLog, joinRun, conversationAreas,
                   viewingAreas, leaderboard>>

\* rps.selectMove(player, move)
StatusSelectMove(player, move) ==
    /\ handled' = "selectMove"
    /\ playersSeen' = <<>>
    /\ LET selected == selectMove(rpsGame[1], player, move)
       IN /\ rpsGame' = <<selected.game>>
          /\ events' = events \o selected.emitted
    /\ Len(events') <= MaxEmits
    /\ lastCall' = <<>>
    /\ UNCHANGED <<userID, ourPlayer, players, challengeReceived, resultsSent,
                   socketOut, fault, moveLog, joinRun, conversationAreas,
                   viewingAreas, leaderboard>>

\* rps.calculateWinnerFromMoves()
StatusCalculateWinner ==
    /\ handled' = "calculateWinnerFromMoves"
    /\ playersSeen' = <<>>
    /\ LET calculated == calculateWinnerFromMovesWithStatus(rpsGame[1])
       IN /\ rpsGame' = <<calculated.game>>
          /\ events' = events \o calculated.emitted
          /\ lastCall' = <<[game |-> rpsGame[1],
                            result |-> calculated.result]>>
    /\ Len(events') <= MaxEmits
    /\ UNCHANGED <<userID, ourPlayer, players, challengeReceived, resultsSent,
                   socketOut, fault, moveLog, joinRun, conversationAreas,
                   viewingAreas, leaderboard>>

\* rps.updateFrom(playerMove) of classes/RPS.ts: the move is stored through
\* the move setters and, with both moves set, calculateWinnerFromMoves runs
StatusUpdateFrom(playerMove) ==
    /\ handled' = "updateFrom"
    /\ playersSeen' = <<>>
    /\ LET updated == selectMove(rpsGame[1], playerMove.player,
                                 playerMove.move).game
           calculated == calculateWinnerFromMovesWithStatus(updated)
       IN IF updated.playerOneMove # Undefined
             /\ updated.playerTwoMove # Undefined
          THEN /\ rpsGame' = <<calculated.game>>
               /\ events' = events \o calculated.emitted
          ELSE /\ rpsGame' = <<updated>>
               /\ events' = events
    /\ Len(events') <= MaxEmits
    /\ lastCall' = <<>>
    /\ UNCHANGED <<userID, ourPlayer, players, challengeReceived, resultsSent,
                   socketOut, fault, moveLog, joinRun, conversationAreas,
                   viewingAreas, leaderboard>>

StatusNext ==
    \/ StatusStartGame
    \/ \E player \in Players, move \in Answer : StatusSelectMove(player, move)
    \/ StatusCalculateWinner
    \/ \E playerMove \in RPSPlayerMoves : StatusUpdateFrom(playerMove)

SpecStatus == StatusInit /\ [][StatusNext]_vars

\* C31: once both participants have selected a move the game is FINISHED
\* and its statusChange listeners have been told so, for a win and for a
\* draw alike.
C31_BothMovesFinish ==
    \A game \in Range(rpsGame) :
        (game.playerOneMove # Undefined /\ game.playerTwoMove # Undefined) =>
            /\ game.status = GameStatusFINISHED
            /\ Event("statusChange", GameStatusFINISHED) \in Range(events)

\* ------------------------- the RPS class that resolves two given answers
\* (the RPS class of PlayerControllers): the instance is kept in rpsGame
\* with its status, and events holds what the last call emitted
NewAnswersRPS(playerOne, playerTwo) ==
    [playerOne |-> playerOne, playerTwo |-> playerTwo,
     status |-> GameStatusNEW]

\* RPS.calculateWinner(playerOneAnswer, playerTwoAnswer): the winner or
\* undefined for a draw; playerWon or playersDrawed is emitted and the
\* status set to FINISHED
rpsCalculateWinner(game, playerOneAnswer, playerTwoAnswer) ==
    LET playerWon ==
            IF playerOneAnswer = ROCK
            THEN (IF playerTwoAnswer = ROCK THEN Undefined
                  ELSE IF playerTwoAnswer = PAPER THEN game.playerTwo
                  ELSE game.playerOne)
            ELSE IF playerOneAnswer = PAPER
            THEN (IF playerTwoAnswer = ROCK THEN game.playerOne
                  ELSE IF playerTwoAnswer = PAPER THEN Undefined
                  ELSE game.playerTwo)
            ELSE (IF playerTwoAnswer = ROCK THEN game.playerTwo
                  ELSE IF playerTwoAnswer = PAPER THEN game.playerOne
                  ELSE Undefined)
        finished == setStatus(game, GameStatusFINISHED)
    IN [game |-> finished.game,
        emitted |-> (IF playerWon # Undefined
                     THEN <<Event("playerWon", playerWon)>>
                     ELSE <<Event("playersDrawed", "draw")>>)
                    \o finished.emitted,
        result |-> playerWon]

\* RPS.calculateLoser(playerOneAnswer, playerTwoAnswer): playerLost is
\* emitted for the player who is not the winner, and the winner is returned
calculateLoser(game, playerOneAnswer, playerTwoAnswer) ==
    LET won == rpsCalculateWinner(game, playerOneAnswer, playerTwoAnswer)
        winner == won.result
    IN IF winner # Undefined
       THEN [game |-> setStatus(won.game, GameStatusFINISHED).game,
             emitted |-> won.emitted
                 \o <<Event("playerLost",
                            IF winner = game.playerOne
                            THEN game.playerTwo ELSE game.playerOne)>>
                 \o setStatus(won.game, GameStatusFINISHED).emitted,
             result |-> winner]
       ELSE [game |-> won.game, emitted |-> won.emitted, result |-> winner]

AnswersInit ==
    /\ \E playerOne \in Players, playerTwo \in Players :
           rpsGame = <<NewAnswersRPS(playerOne, playerTwo)>>
    /\ userID = Undefined
    /\ ourPlayer = Undefined
    /\ players = <<>>
    /\ challengeReceived = Undefined
    /\ resultsSent = 0
    /\ socketOut = <<>>
    /\ events = <<>>
    /\ lastCall = <<>>
    /\ fault = FALSE
    /\ handled = Undefined
    /\ playersSeen = <<>>
    /\ moveLog = <<>>
    /\ joinRun = <<>>
    /\ conversationAreas = <<>>
    /\ viewingAreas = <<>>
    /\ leaderboard = <<>>

\* rps.startGame()
AnswersStartGame ==
    /\ handled' = "startGame"
    /\ playersSeen' = <<>>
    /\ LET started == setStatus(rpsGame[1], GameStatusSTARTED)
       IN /\ rpsGame' = <<started.game>>
          /\ events' = started.emitted
                           \o <<Event("statusChange", GameStatusSTARTED)>>
    /\ lastCall' = <<>>
    /\ UNCHANGED <<userID, ourPlayer, players, challengeReceived, resultsSent,
                   socketOut, fault, moveLog, joinRun, conversationAreas,
                   viewingAreas, leaderboard>>

\* rps.calculateWinner(playerOneAnswer, playerTwoAnswer)
AnswersCalculateWinner(playerOneAnswer, playerTwoAnswer) ==
    /\ handled' = "calculateWinner"
    /\ playersSeen' = <<>>
    /\ LET won == rpsCalculateWinner(rpsGame[1], playerOneAnswer,
                                     playerTwoAnswer)
       IN /\ rpsGame' = <<won.game>>
          /\ events' = won.emitted
          /\ lastCall' = <<[game |-> rpsGame[1],
                            playerOneAnswer |-> playerOneAnswer,
                            playerTwoAnswer |-> playerTwoAnswer,
                            result |-> won.result]>>
    /\ UNCHANGED <<userID, ourPlayer, players, challengeReceived, resultsSent,
                   socketOut, fault, moveLog, joinRun, conversationAreas,
                   viewingAreas, leaderboard>>

\* rps.calculateLoser(playerOneAnswer, playerTwoAnswer)
AnswersCalculateLoser(playerOneAnswer, playerTwoAnswer) ==
    /\ handled' = "calculateLoser"
    /\ playersSeen' = <<>>
    /\ LET lost == calculateLoser(rpsGame[1], playerOneAnswer,
                                  playerTwoAnswer)
       IN /\ rpsGame' = <<lost.game>>
          /\ events' = lost.emitted
          /\ lastCall' = <<[game |-> rpsGame[1],
                            playerOneAnswer |-> playerOneAnswer,
                            playerTwoAnswer |-> playerTwoAnswer,
                            result |-> lost.result]>>
    /\ UNCHANGED <<userID, ourPlayer, players, challengeReceived, resultsSent,
                   socketOut, fault, moveLog, joinRun, conversationAreas,
                   viewingAreas, leaderboard>>

AnswersNext ==
    \/ AnswersStartGame
    \/ \E playerOneAnswer \in Answer, playerTwoAnswer \in Answer :
           AnswersCalculateWinner(playerOneAnswer, playerTwoAnswer)
    \/ \E playerOneAnswer \in Answer, playerTwoAnswer \in Answer :
           AnswersCalculateLoser(playerOneAnswer, playerTwoAnswer)

SpecAnswers == AnswersInit /\ [][AnswersNext]_vars

\* C32: calculateLoser returns the player whose answer is beaten for each
\* of the six pairs of different answers, and undefined for the three
\* equal pairs.
C32_CalculateLoserReturnsLoser ==
    handled = "calculateLoser" =>
        \A c \in Range(lastCall) :
            /\ Beats(c.playerOneAnswer, c.playerTwoAnswer) =>
                   c.result = c.game.playerTwo
            /\ Beats(c.playerTwoAnswer, c.playerOneAnswer) =>
                   c.result = c.game.playerOne
            /\ c.playerOneAnswer = c.playerTwoAnswer => c.result = Undefined

\* C33: the challenge challengePlayer sends has no response set; the game
\* change startRPS sends on acceptance carries response true, and the one
\* removeRPSGame announces carries response false.
C33_ResponseMarksChallengeState ==
    [][ /\ handled' = "challengePlayer" =>
               \A m \in Range(socketOut') : m.payload.response = Undefined
        /\ handled' \in {"startRPS", "acceptRPSChallenge"} =>
               \A m \in Range(socketOut') : m.payload.response = JTrue
        /\ handled' = "removeRPSGame" =>
               \A e \in Range(events') : e.payload.response = JFalse ]_vars

\* C34: a playersChanged listener that reads the players accessor while it
\* runs gets the roster as it was before the handler; the roster the
\* handler leaves is the parameter of the notification.
C34_PlayersChangedBeforeReplaced ==
    [][ \A i \in DOMAIN events' :
            events'[i].type = "playersChanged" =>
                /\ playersSeen' = <<players>>
                /\ events'[i].payload = players' ]_vars

\* a listener called for a join was handed two players and read one
C34_Witness ==
    /\ handled = "playerJoined"
    /\ Len(players) = 2
    /\ Len(playersSeen) = 1
    /\ Len(playersSeen[1]) = 1
    /\ Event("playersChanged", players) \in Range(events)

\* C35: startRPS puts a game in the slot only for a challenger and a
\* challengee who are both in the roster; otherwise the slot stays as it
\* was and nothing is sent. The game a start leaves behind names players of
\* the roster only.
C35_StartNeedsBothInRoster ==
    [][ handled' \in StartHandlers =>
            /\ \A response \in InboundChallenges :
                   ( /\ StartRPS(response)
                     /\ ~({response.challenger, response.challengee}
                              \subseteq PlayerIDs(players)) ) =>
                       /\ rpsGame' = rpsGame
                       /\ socketOut' = <<>>
            /\ socketOut' # <<>> =>
                   /\ rpsGame' # <<>>
                   /\ {rpsGame'[1].playerOne, rpsGame'[1].playerTwo}
                          \subseteq PlayerIDs(players) ]_vars

\* startRPS was refused for an absent player while a game was in the slot
C35_Witness ==
    /\ handled = "startRPS"
    /\ socketOut = <<>>
    /\ rpsGame # <<>>
    /\ Len(players) < Cardinality(Players)

\* C36: a result handed to the socket names two different players, the
\* two participants of the game that was in the slot; a game of one player
\* against themselves is never ready to complete.
C36_ResultNamesBothParticipants ==
    [][ /\ \A m \in Range(socketOut') :
               m.type = "rpsGameEnded" =>
                   /\ rpsGame # <<>>
                   /\ m.payload.winner # m.payload.loser
                   /\ {m.payload.winner, m.payload.loser}
                          = {rpsGame[1].playerOne, rpsGame[1].playerTwo}
        /\ \A game \in Range(rpsGame') :
               game.playerOne = game.playerTwo =>
                   /\ ~readyToComplete(game)
                   /\ CountType(socketOut', "rpsGameEnded") = 0 ]_vars

\* our player accepted their own challenge and submitted a move
C36_Witness ==
    /\ handled = "submitMove"
    /\ rpsGame # <<>>
    /\ rpsGame[1].playerOne = rpsGame[1].playerTwo
    /\ rpsGame[1].playerOneMove # Undefined
    /\ resultsSent = 0

\* C37: an rpsPlayerMove whose player and opponent are not the two
\* participants of the game in the slot leaves the game as it was and
\* brings no result.
C37_ForeignMoveNotRecorded ==
    [][ (handled' = "rpsPlayerMove" /\ rpsGame # <<>>) =>
            \A rpsMove \in RPSPlayerMoves :
                ( /\ RecvPlayerMove(rpsMove)
                  /\ {rpsMove.player, rpsMove.opponent}
                         # {rpsGame[1].playerOne, rpsGame[1].playerTwo} ) =>
                    /\ rpsGame' = rpsGame
                    /\ CountType(socketOut', "rpsGameEnded") = 0 ]_vars

\* the game as a move handler left it: the instance in the slot, or the
\* one it resolved and removed
GameAfterMove ==
    IF rpsGame' # <<>> THEN rpsGame'[1]
    ELSE IF lastCall' # <<>> THEN lastCall'[1].game
    ELSE rpsGame[1]

\* C38: submitMove leaves the choice of every participant other than our
\* player as it was.
C38_SubmitMoveWritesOwnSlotOnly ==
    [][ (handled' = "submitMove" /\ rpsGame # <<>>) =>
            /\ rpsGame[1].playerOne # userID =>
                   GameAfterMove.playerOneMove = rpsGame[1].playerOneMove
            /\ rpsGame[1].playerTwo # userID =>
                   GameAfterMove.playerTwoMove = rpsGame[1].playerTwoMove ]_vars

\* ------------------------------------------ one contest, played to its end
\* our player submits a move in the game in the slot, against its challenger
OwnMoveSubmitted ==
    \E move \in RPSPlayerMoves :
        /\ Connected /\ rpsGame # <<>>
        /\ move.player = userID
        /\ move.opponent = rpsGame[1].playerOne
        /\ SubmitMove(move)

\* the move the challenger of the game in the slot submitted is delivered
OpponentMoveDelivered ==
    \E rpsMove \in RPSPlayerMoves :
        /\ Connected /\ rpsGame # <<>>
        /\ rpsMove.player = rpsGame[1].playerOne
        /\ rpsMove.opponent = rpsGame[1].playerTwo
        /\ RecvPlayerMove(rpsMove)

\* a town in which one challenge is accepted: the snapshot, challenges
\* arriving, the acceptance while no game was started yet, and moves
\* submitted and delivered, those of other contests included
LiveNext ==
    \/ \E uid \in LocalUsers : \E snapshot \in Snapshots(uid) :
           Initialize(uid, snapshot, <<>>)
    \/ \E challenge \in InboundChallenges :
           Connected /\ RecvChallengeSent(challenge)
    \/ Connected /\ rpsGame = <<>> /\ resultsSent = 0 /\ AcceptRPSChallenge
    \/ \E rpsMove \in RPSPlayerMoves : Connected /\ RecvPlayerMove(rpsMove)
    \/ \E move \in RPSPlayerMoves : Connected /\ SubmitMove(move)

\* both participants submit a move and the transport delivers it: while a
\* game is in the slot our player's submitMove and the delivery of the
\* challenger's move cannot be put off for ever
SpecLive ==
    /\ Init
    /\ [][LiveNext]_vars
    /\ WF_vars(OwnMoveSubmitted)
    /\ WF_vars(OpponentMoveDelivered)

\* C39 (as stated): every accepted game leads to a result sent for it and
\* an empty slot.
C39_AcceptedContestResolves ==
    (rpsGame # <<>>) ~> (rpsGame = <<>> /\ resultsSent = 1)

\* C39: every accepted game of two different players leads to a result
\* sent for it and an empty slot.
C39_ContestOfTwoResolves ==
    (rpsGame # <<>> /\ rpsGame[1].playerOne # rpsGame[1].playerTwo)
        ~> (rpsGame = <<>> /\ resultsSent = 1)

\* the delivery of the challenger's move resolved the game our player had
\* already moved in
C39_Witness ==
    /\ handled = "rpsPlayerMove"
    /\ rpsGame = <<>>
    /\ resultsSent = 1
    /\ \E c \in Range(lastCall) :
           /\ c.game.playerOne # c.game.playerTwo
           /\ c.game.playerTwo = userID

====
